---- MODULE Spec2Model ----
(***************************************************************************)
(* Region-data lifecycle of the store: the split-key adjuster              *)
(* (raftstore/src/coprocessor/split_observer.rs), the snapshot file        *)
(* builder/applier (raftstore/src/store/snap/io.rs) and the range          *)
(* deletion engine (engine_rocks/src/misc.rs).                             *)
(*                                                                         *)
(* Keys and values are byte strings, modelled as sequences of naturals.    *)
(* The three components share no state; each has its own specification     *)
(* (SpecSplit, SpecSnap, SpecDelete) over its own variables, the other     *)
(* components' variables resting at their idle values.                     *)
(***************************************************************************)
EXTENDS Integers, Sequences, FiniteSets, TLC

(***************************************************************************)
(* Byte strings                                                            *)
(***************************************************************************)

Min(a, b) == IF a <= b THEN a ELSE b

\* Lexicographic order of byte strings: Rust's Ord for [u8] / Vec<u8>.
KeyLess(a, b) ==
    \E i \in 1..(Min(Len(a), Len(b)) + 1) :
        /\ \A j \in 1..(i - 1) : a[j] = b[j]
        /\ IF i > Len(a) THEN i <= Len(b)
           ELSE IF i > Len(b) THEN FALSE
           ELSE a[i] < b[i]

KeyLeq(a, b) == a = b \/ KeyLess(a, b)

\* The keys of a set in ascending order: the order an iterator visits them in.
RECURSIVE SortKeys(_)
SortKeys(S) ==
    IF S = {} THEN <<>>
    ELSE LET m == CHOOSE x \in S : \A y \in S : KeyLeq(x, y)
         IN  <<m>> \o SortKeys(S \ {m})

(***************************************************************************)
(* Split-key adjuster: state                                               *)
(***************************************************************************)
VARIABLES
    region,       \* the region of the ObserverContext: [start_key, end_key]
    req,          \* the AdminRequest handed to pre_propose_admin (mutated in place)
    req0,         \* history: the request as it was before the call
    splitRet      \* "pending" before the call, then "Ok" or "Err"

splitVars == <<region, req, req0, splitRet>>

(***************************************************************************)
(* Snapshot build/apply: state                                             *)
(***************************************************************************)
VARIABLES
    srcCf,            \* the column family as seen through the snapshot handle: key -> value
    liveCf,           \* the same column family in the live store, open to other writers
    file,             \* what is at `path` on the file system
    bpc,              \* build: "idle", "scan", then "ok", "err" or "err_scan";
                      \* "cut" once the file the build left has lost its end
    bmode,            \* "plain" or "sst" ("none" before a build)
    brange,           \* [start_key, end_key] of the build
    scanRest,         \* the pairs scan_cf has still to visit, in key order
    stats,            \* BuildStatistics: [key_count, total_size]
    remained_quota,   \* build_sst_cf_file's unused limiter quota
    consumed,         \* history: bytes taken from the limiter so far
    apc,              \* apply: "idle", "loop", then "ok", "abort", "err", "err_write", "err_ingest"
    batch_size,       \* apply_plain_cf_file's batch_size argument
    rdOff,            \* the decoder's position in the file (1-based)
    batch,            \* pairs decoded and not yet written
    batch_data_size,  \* their summed key+value length
    db1,              \* the target column family: key -> value
    db10,             \* history: the target column family before the apply
    cbLog,            \* history: the argument of each callback invocation
    wrLog,            \* history: the pairs of each write batch written to the target
    answers,          \* history: the answers of stale_detector.is_stale(), in order
    decoded           \* history: records (key and value) decoded

buildVars == <<bpc, bmode, brange, scanRest, stats, remained_quota, consumed>>
applyVars == <<apc, batch_size, rdOff, batch, batch_data_size, db1, db10, cbLog, wrLog,
               answers, decoded>>
snapVars == <<srcCf, liveCf, file, buildVars, applyVars>>

(***************************************************************************)
(* Range deletion: state                                                   *)
(***************************************************************************)
VARIABLES
    dbcf,               \* the column family delete_ranges_cf works on: key -> value
    loc,              \* where each key was written: 0 the memtable, else an on-disk file
    dpc,              \* "idle", the position inside delete_ranges_cf, then "ok" or "err"
    dcf,              \* the cf argument of the call: a column family name
    dstrategy,        \* the DeleteStrategy of the call
    dranges,          \* the ranges argument
    sranges,          \* the ranges in processing order (by_ingest: sorted by start key)
    ri,               \* index of the range being processed
    it,               \* the keys the current iterator has still to yield
    wb,               \* the keys of the write batch being filled
    data,             \* by_ingest: the keys buffered in memory
    writer,           \* by_ingest: writer_wrapper, [open, keys]
    last_end_key,     \* by_ingest: [some, key]
    cf0,              \* history: the column family as it was when the call started
    cfStart,          \* history: the column family before the first call
    ncalls,           \* history: calls started
    invertedVerdict,  \* the engine's answer to a tombstone with end < start, once given
    dlog              \* history: the engine operations of the call, in order

deleteVars == <<dbcf, loc, dpc, dcf, dstrategy, dranges, sranges, ri, it, wb, data, writer,
                last_end_key, cf0, cfStart, ncalls, invertedVerdict, dlog>>

vars == <<splitVars, snapVars, deleteVars>>

\* What the actions of one component leave alone.
notSplitVars == <<snapVars, deleteVars>>
notSnapVars == <<splitVars, deleteVars>>
notDeleteVars == <<splitVars, snapVars>>

\* Bounds of the split model.
MaxSplits == 3

\* Candidate split keys: raw keys a..d (one byte, not decodable), encoded keys
\* (a length byte, the payload, then possibly a version suffix), the empty key.
SplitKeys ==
    { <<>>, <<1>>, <<2>>, <<3>>, <<4>>,
      <<1, 3>>, <<1, 3, 8>>, <<1, 3, 9>>, <<0, 9>> }

Regions ==
    { r \in [start_key : {<<>>, <<1, 3>>, <<2>>}, end_key : {<<3>>, <<4>>, <<5>>}] :
        KeyLess(r.start_key, r.end_key) }

\* A SplitRequest: its split key and the id of the region it creates.
MkSplit(k, id) == [split_key |-> k, new_region_id |-> id]

\* The default (unset) SplitRequest message.
DefaultSplit == MkSplit(<<>>, 0)

SeqsUpTo(S, n) == UNION { [1..m -> S] : m \in 0..n }

MkRequests(ks) == [i \in 1..Len(ks) |-> MkSplit(ks[i], i)]

\* The example of the specification: the candidates b, a, d, d, c.
ExampleKeys == << <<2>>, <<1>>, <<4>>, <<4>>, <<3>> >>
ExampleRegion == [start_key |-> <<>>, end_key |-> <<5>>]

(***************************************************************************)
(* Split-key adjuster: pure functions                                      *)
(***************************************************************************)

\* bytes::decode_bytes(&mut slice, false), as the specification describes it: a
\* length-prefixed encoded key. It succeeds when the length byte and that many
\* payload bytes are there, and consumes exactly those.
DecodeBytesOk(key) == Len(key) >= 1 /\ Len(key) >= 1 + key[1]

\* What is left of the slice after a successful decode.
DecodeBytesRest(key) == SubSeq(key, 2 + key[1], Len(key))

\* strip_len taken to be what the decoder consumed instead of what it left.
strip_timestamp_if_exists_StripsConsumed(key) ==
    LET strip_len == IF DecodeBytesOk(key) THEN Len(key) - Len(DecodeBytesRest(key)) ELSE 0
    IN  SubSeq(key, 1, Len(key) - strip_len)

strip_timestamp_if_exists(key) ==
    LET strip_len == IF DecodeBytesOk(key) THEN Len(DecodeBytesRest(key)) ELSE 0
    IN  SubSeq(key, 1, Len(key) - strip_len)

\* util::check_key_in_region_exclusive: the key lies in the open interval.
check_key_in_region_exclusive(key, r) ==
    KeyLess(r.start_key, key) /\ KeyLess(key, r.end_key)

\* The validity test without the region check: any non-empty key passes.
is_valid_split_key_NoRegionCheck(key, r) == key # <<>>

is_valid_split_key(key, r) ==
    IF key = <<>> THEN FALSE
    ELSE IF ~check_key_in_region_exclusive(key, r) THEN FALSE
    ELSE TRUE

\* The filter_map of on_split: strip every key, keep the valid ones, in order.
StripAll(splits) ==
    [i \in 1..Len(splits) |->
        [splits[i] EXCEPT !.split_key = strip_timestamp_if_exists(@)]]

IsValidSplit(s, r) == is_valid_split_key(s.split_key, r)

FilterMapSplits(splits, r) ==
    LET stripped == StripAll(splits)
        RECURSIVE Keep(_)
        Keep(i) == IF i > Len(stripped) THEN <<>>
                   ELSE IF IsValidSplit(stripped[i], r)
                        THEN <<stripped[i]>> \o Keep(i + 1)
                        ELSE Keep(i + 1)
    IN  Keep(1)

\* The closure with `<=` for `<`: a tie keeps both keys.
CoalesceKeepsTies(prev, curr) == KeyLeq(prev.split_key, curr.split_key)

\* The closure given to coalesce: TRUE is Err((prev, curr)) (both are kept, prev
\* is emitted), FALSE is Ok(prev) (curr is merged away).
CoalesceKeepsBoth(prev, curr) == KeyLess(prev.split_key, curr.split_key)

\* itertools' coalesce: carries `prev`, emits it when the closure answers Err.
RECURSIVE CoalesceFrom(_, _)
CoalesceFrom(prev, rest) ==
    IF rest = <<>> THEN <<prev>>
    ELSE IF CoalesceKeepsBoth(prev, Head(rest))
         THEN <<prev>> \o CoalesceFrom(Head(rest), Tail(rest))
         ELSE CoalesceFrom(prev, Tail(rest))

\* A coalesce whose closure answers Ok(curr): of two keys that do not increase
\* the later one is carried on.
CoalesceKeepsLater(s) ==
    LET RECURSIVE From(_, _)
        From(prev, rest) ==
            IF rest = <<>> THEN <<prev>>
            ELSE IF CoalesceKeepsBoth(prev, Head(rest))
                 THEN <<prev>> \o From(Head(rest), Tail(rest))
                 ELSE From(Head(rest), Tail(rest))
    IN  IF s = <<>> THEN <<>> ELSE From(Head(s), Tail(s))

Coalesce(s) == IF s = <<>> THEN <<>> ELSE CoalesceFrom(Head(s), Tail(s))

\* The coalesce step replaced by a sort of the valid candidates, duplicates removed.
AdjustedSplitsSorted(splits, r) ==
    LET v == FilterMapSplits(splits, r)
        ks == SortKeys({ v[i].split_key : i \in 1..Len(v) })
    IN  [i \in 1..Len(ks) |->
            LET j == CHOOSE j \in 1..Len(v) :
                        /\ v[j].split_key = ks[i]
                        /\ \A l \in 1..(j - 1) : v[l].split_key # ks[i]
            IN  v[j]]

AdjustedSplits(splits, r) == Coalesce(FilterMapSplits(splits, r))

\* on_split failing the whole batch as soon as one candidate was dropped.
on_split_AllOrNothing(splits, r) ==
    LET ajusted_splits == Coalesce(FilterMapSplits(splits, r))
    IN  IF Len(ajusted_splits) < Len(splits) \/ ajusted_splits = <<>>
        THEN [ok |-> FALSE, splits |-> <<>>]
        ELSE [ok |-> TRUE, splits |-> ajusted_splits]

\* on_split(ctx, &mut splits): [ok, splits], splits being the vector afterwards.
\* std::mem::take empties the vector; it is written back only on success.
on_split(splits, r) ==
    LET ajusted_splits == AdjustedSplits(splits, r)
    IN  IF ajusted_splits = <<>>
        THEN [ok |-> FALSE, splits |-> <<>>]
        ELSE [ok |-> TRUE, splits |-> ajusted_splits]

(***************************************************************************)
(* Split-key adjuster: the admin observer                                  *)
(***************************************************************************)

SplitRequestsOf(Keys) ==
    { [cmd_type |-> "Split", has_split |-> TRUE, split |-> MkSplit(k, 1),
       has_splits |-> FALSE, requests |-> <<>>] : k \in Keys }
    \cup
    { [cmd_type |-> "Split", has_split |-> FALSE, split |-> DefaultSplit,
       has_splits |-> FALSE, requests |-> <<>>] }

BatchSplitRequestsOf(KeyLists) ==
    { [cmd_type |-> "BatchSplit", has_split |-> FALSE, split |-> DefaultSplit,
       has_splits |-> TRUE, requests |-> MkRequests(ks)] : ks \in KeyLists }
    \cup
    { [cmd_type |-> "BatchSplit", has_split |-> FALSE, split |-> DefaultSplit,
       has_splits |-> FALSE, requests |-> <<>>] }

\* Any other admin command (CompactLog, ...), whatever payload it carries.
OtherRequestsOf(Keys) ==
    { [cmd_type |-> "CompactLog", has_split |-> h, split |-> IF h THEN MkSplit(k, 1) ELSE DefaultSplit,
       has_splits |-> FALSE, requests |-> <<>>] :
        h \in BOOLEAN, k \in Keys }

InitSplitVars ==
    /\ \/ /\ region \in Regions
          /\ req \in SplitRequestsOf(SplitKeys)
                     \cup BatchSplitRequestsOf(SeqsUpTo(SplitKeys, MaxSplits))
                     \cup OtherRequestsOf({<<>>, <<1, 3, 8>>})
       \/ /\ region = ExampleRegion
          /\ req \in BatchSplitRequestsOf({ExampleKeys})
    /\ req0 = req
    /\ splitRet = "pending"

\* AdminCmdType::Split
PreProposeSplit ==
    /\ splitRet = "pending"
    /\ req.cmd_type = "Split"
    /\ IF ~req.has_split
       THEN /\ splitRet' = "Err"
            /\ req' = req
       ELSE LET r == on_split(<<req.split>>, region)   \* vec![req.take_split()]
            IN  IF ~r.ok
                THEN /\ splitRet' = "Err"
                     /\ req' = [req EXCEPT !.has_split = FALSE, !.split = DefaultSplit]
                ELSE /\ splitRet' = "Ok"
                     \* req.set_split(request.pop().unwrap()): the last element
                     /\ req' = [req EXCEPT !.has_split = TRUE,
                                           !.split = r.splits[Len(r.splits)]]
    /\ UNCHANGED <<region, req0, notSplitVars>>

\* The request left with the list that take_requests emptied.
set_requests_Nothing(rq, splits) == [rq EXCEPT !.requests = <<>>]

\* req.mut_splits().set_requests(requests.into())
set_requests(rq, splits) == [rq EXCEPT !.requests = splits]

\* AdminCmdType::BatchSplit
PreProposeBatchSplit ==
    /\ splitRet = "pending"
    /\ req.cmd_type = "BatchSplit"
    /\ IF ~req.has_splits
       THEN /\ splitRet' = "Err"
            /\ req' = req
       ELSE LET r == on_split(req.requests, region)   \* mut_splits().take_requests()
            IN  IF ~r.ok
                THEN /\ splitRet' = "Err"
                     /\ req' = [req EXCEPT !.requests = <<>>]
                ELSE /\ splitRet' = "Ok"
                     /\ req' = set_requests(req, r.splits)
    /\ UNCHANGED <<region, req0, notSplitVars>>

\* Any other command type: `_ => return Ok(())`.
PreProposeOther ==
    /\ splitRet = "pending"
    /\ req.cmd_type \notin {"Split", "BatchSplit"}
    /\ splitRet' = "Ok"
    /\ UNCHANGED <<region, req, req0, notSplitVars>>

pre_propose_admin == PreProposeSplit \/ PreProposeBatchSplit \/ PreProposeOther

\* The adjuster at rest, for the specifications of the other components.
IdleSplitVars ==
    /\ region = ExampleRegion
    /\ req = [cmd_type |-> "CompactLog", has_split |-> FALSE, split |-> DefaultSplit,
              has_splits |-> FALSE, requests |-> <<>>]
    /\ req0 = req
    /\ splitRet = "Ok"

(***************************************************************************)
(* Snapshot build/apply: bounds and inputs                                 *)
(***************************************************************************)

\* At most this many pairs in the source column family.
MaxPairs == 3
\* apply_plain_cf_file is called with batch_size in 0..MaxBatchSize.
MaxBatchSize == 4

\* super::IO_LIMITER_CHUNK_SIZE (4 KiB in the store), scaled to the model's
\* key and value lengths.
IO_LIMITER_CHUNK_SIZE == 3

SnapKeys == { <<>>, <<1>>, <<2>>, <<2, 1>>, <<3>> }
SnapVals == { <<>>, <<7>>, <<8, 8>> }

\* Column families: partial functions from keys to values.
CfsOver(Keys, Vals, n) ==
    UNION { [D -> Vals] : D \in { X \in SUBSET Keys : Cardinality(X) <= n } }

SnapRanges ==
    { [start_key |-> <<>>,  end_key |-> <<3>>],
      [start_key |-> <<1>>, end_key |-> <<3>>],
      [start_key |-> <<2>>, end_key |-> <<2>>] }

EmptyCf == <<>>

NoFile ==
    [exists |-> FALSE, kind |-> "none", bytes |-> <<>>, entries |-> <<>>,
     finished |-> FALSE, synced |-> FALSE]

\* A file somebody left at `path` before the build.
StaleFile ==
    [exists |-> TRUE, kind |-> "plain", bytes |-> <<1, 9, 0, 0>>, entries |-> <<>>,
     finished |-> FALSE, synced |-> TRUE]

(***************************************************************************)
(* Snapshot build/apply: the storage capability and the codec              *)
(***************************************************************************)

InRange(k, r) == KeyLeq(r.start_key, k) /\ KeyLess(k, r.end_key)

\* Iterable::scan_cf(cf, start, end, ..): the pairs of [start, end), ascending.
ScanRange(cf, r) ==
    LET ks == SortKeys({ k \in DOMAIN cf : InRange(k, r) })
    IN  [i \in 1..Len(ks) |-> <<ks[i], cf[ks[i]]>>]

\* wb.put_cf(cf, k, v) applied to the column family.
PutCf(cf, k, v) == [x \in (DOMAIN cf) \cup {k} |-> IF x = k THEN v ELSE cf[x]]

RECURSIVE PutAll(_, _)
PutAll(cf, pairs) ==
    IF pairs = <<>> THEN cf
    ELSE PutAll(PutCf(cf, Head(pairs)[1], Head(pairs)[2]), Tail(pairs))

\* BytesEncoder::encode_compact_bytes: the length, then the bytes.
EncodeCompactBytes(payload) == <<Len(payload)>> \o payload

\* CompactBytesFromFileDecoder::decode_compact_bytes at offset `off` of `bytes`:
\* [ok, data, next]; an error when the file ends before the length or the payload.
DecodeCompactBytes(bytes, off) ==
    IF off > Len(bytes) THEN [ok |-> FALSE, data |-> <<>>, next |-> off]
    ELSE LET n == bytes[off]
         IN  IF off + n > Len(bytes) THEN [ok |-> FALSE, data |-> <<>>, next |-> off]
             ELSE [ok |-> TRUE, data |-> SubSeq(bytes, off + 1, off + n),
                   next |-> off + n + 1]

(***************************************************************************)
(* build_plain_cf_file                                                     *)
(***************************************************************************)

\* The scan closure of build_plain_cf_file for one pair: [stats, bytes].
PlainScanPairNoValue(st, bytes, key, value) ==
    [stats |-> [key_count |-> st.key_count + 1,
                total_size |-> st.total_size + Len(key) + Len(value)],
     bytes |-> bytes \o EncodeCompactBytes(key) \o EncodeCompactBytes(key)]

PlainScanPair(st, bytes, key, value) ==
    [stats |-> [key_count |-> st.key_count + 1,
                total_size |-> st.total_size + Len(key) + Len(value)],
     bytes |-> bytes \o EncodeCompactBytes(key) \o EncodeCompactBytes(value)]

\* After the scan, with an empty file left in place when no pair was written.
PlainFinishKeepsEmpty(f, st) ==
    IF st.key_count > 0
    THEN [f EXCEPT !.bytes = @ \o EncodeCompactBytes(<<>>), !.synced = TRUE]
    ELSE f

\* After the scan, with sync_all before the terminator: the last write is not
\* covered by the sync.
PlainFinishSyncFirst(f, st) ==
    IF st.key_count > 0
    THEN [f EXCEPT !.bytes = @ \o EncodeCompactBytes(<<>>), !.synced = FALSE]
    ELSE NoFile

\* After the scan: the terminator and sync_all, or remove_file.
PlainFinish(f, st) ==
    IF st.key_count > 0
    THEN [f EXCEPT !.bytes = @ \o EncodeCompactBytes(<<>>), !.synced = TRUE]
    ELSE NoFile

\* The open with create(true).truncate(true): an existing file is emptied.
PlainOpenTruncates(f) ==
    [ok |-> TRUE, file |-> [NoFile EXCEPT !.exists = TRUE, !.kind = "plain"]]

\* OpenOptions::new().write(true).create_new(true).open(path): fails on an
\* existing path, which it leaves alone; else creates the empty file. [ok, file]
PlainOpen(f) ==
    IF f.exists THEN [ok |-> FALSE, file |-> f]
    ELSE [ok |-> TRUE, file |-> [NoFile EXCEPT !.exists = TRUE, !.kind = "plain"]]

\* The scan going to the live store instead of the snapshot handle.
ScanSourceLive(snap, live) == live

\* snap.scan_cf(..): the builders scan the snapshot handle they were given.
ScanSource(snap, live) == snap

BuildPlainOpen ==
    /\ bpc = "idle"
    /\ \E r \in SnapRanges : brange' = r
    /\ bmode' = "plain"
    /\ LET o == PlainOpen(file)
       IN  /\ file' = o.file
           /\ bpc' = IF o.ok THEN "scan" ELSE "err"
           /\ scanRest' = IF o.ok THEN ScanRange(ScanSource(srcCf, liveCf), brange')
                          ELSE scanRest
    /\ UNCHANGED <<srcCf, liveCf, stats, remained_quota, consumed, applyVars, notSnapVars>>

BuildPlainPair ==
    /\ bpc = "scan" /\ bmode = "plain"
    /\ scanRest # <<>>
    /\ LET r == PlainScanPair(stats, file.bytes, Head(scanRest)[1], Head(scanRest)[2])
       IN  /\ stats' = r.stats
           /\ file' = [file EXCEPT !.bytes = r.bytes]
    /\ scanRest' = Tail(scanRest)
    /\ UNCHANGED <<srcCf, liveCf, bpc, bmode, brange, remained_quota, consumed, applyVars, notSnapVars>>

\* A failed build that removes what it wrote.
BuildFailureRemoves(f) == NoFile

\* box_try! on a failed scan, encode or put: the build returns the error; the
\* file handle or writer is dropped and what was written stays at `path`.
BuildFailure(f) == f

\* build_plain_cf_file when the scan or an encode fails: the scan before it
\* delivers a pair, the encode of the key, or the encode of the value after the
\* key was written; the closure has counted the pair before it encodes.
BuildPlainPairFails ==
    /\ bpc = "scan" /\ bmode = "plain"
    /\ \E op \in {"scan", "encode_key", "encode_value"} :
          /\ op # "scan" => scanRest # <<>>
          /\ stats' = IF op = "scan" THEN stats
                      ELSE PlainScanPair(stats, file.bytes, Head(scanRest)[1],
                                         Head(scanRest)[2]).stats
          /\ file' = BuildFailure(
                        IF op = "encode_value"
                        THEN [file EXCEPT !.bytes = @ \o EncodeCompactBytes(Head(scanRest)[1])]
                        ELSE file)
    /\ bpc' = "err_scan"
    /\ UNCHANGED <<srcCf, liveCf, bmode, brange, scanRest, remained_quota, consumed,
                   applyVars, notSnapVars>>

BuildPlainFinish ==
    /\ bpc = "scan" /\ bmode = "plain"
    /\ scanRest = <<>>
    /\ file' = PlainFinish(file, stats)
    /\ bpc' = "ok"
    /\ UNCHANGED <<srcCf, liveCf, bmode, brange, scanRest, stats, remained_quota, consumed,
                   applyVars, notSnapVars>>

(***************************************************************************)
(* build_sst_cf_file                                                       *)
(***************************************************************************)

\* The limiter asked for one chunk at most per pair (`if` for `while`).
DrainLimiterOnce(quota, entry_len) ==
    IF entry_len > quota THEN quota + IO_LIMITER_CHUNK_SIZE ELSE quota

\* The while loop draining the limiter: the quota after it, for an entry of
\* entry_len bytes.
RECURSIVE DrainLimiter(_, _)
DrainLimiter(quota, entry_len) ==
    IF entry_len > quota
    THEN DrainLimiter(quota + IO_LIMITER_CHUNK_SIZE, entry_len)
    ELSE quota

\* sst_writer.put(key, value) writing the key where the value belongs.
SstWriterPutKeyTwice(entries, key, value) == Append(entries, <<key, key>>)

\* sst_writer.put(key, value)
SstWriterPut(entries, key, value) == Append(entries, <<key, value>>)

\* After the scan, with the writer's file left in place when no pair was written.
SstFinishKeepsEmpty(f, st) ==
    IF st.key_count > 0
    THEN [f EXCEPT !.finished = TRUE, !.synced = TRUE]
    ELSE f

\* After the scan: finish the writer and sync the file, or remove_file.
SstFinish(f, st) ==
    IF st.key_count > 0
    THEN [f EXCEPT !.finished = TRUE, !.synced = TRUE]
    ELSE NoFile

\* create_sst_file_writer: the writer creates (or truncates) the file at `path`.
BuildSstOpen ==
    /\ bpc = "idle"
    /\ \E r \in SnapRanges : brange' = r
    /\ bmode' = "sst"
    /\ bpc' = "scan"
    /\ file' = [NoFile EXCEPT !.exists = TRUE, !.kind = "sst"]
    /\ scanRest' = ScanRange(ScanSource(srcCf, liveCf), brange')
    /\ UNCHANGED <<srcCf, liveCf, stats, remained_quota, consumed, applyVars, notSnapVars>>

BuildSstPair ==
    /\ bpc = "scan" /\ bmode = "sst"
    /\ scanRest # <<>>
    /\ LET key == Head(scanRest)[1]
           value == Head(scanRest)[2]
           entry_len == Len(key) + Len(value)
           quota == DrainLimiter(remained_quota, entry_len)
       IN  /\ consumed' = consumed + (quota - remained_quota)
           /\ remained_quota' = quota - entry_len
           /\ stats' = [key_count |-> stats.key_count + 1,
                        total_size |-> stats.total_size + entry_len]
           /\ file' = [file EXCEPT !.entries = SstWriterPut(@, key, value)]
    /\ scanRest' = Tail(scanRest)
    /\ UNCHANGED <<srcCf, liveCf, bpc, bmode, brange, applyVars, notSnapVars>>

\* build_sst_cf_file when the scan or sst_writer.put fails: the put comes after
\* the limiter and the statistics.
BuildSstPairFails ==
    /\ bpc = "scan" /\ bmode = "sst"
    /\ \E op \in {"scan", "put"} :
          /\ op # "scan" => scanRest # <<>>
          /\ IF op = "scan"
             THEN UNCHANGED <<stats, remained_quota, consumed>>
             ELSE LET key == Head(scanRest)[1]
                      value == Head(scanRest)[2]
                      entry_len == Len(key) + Len(value)
                      quota == DrainLimiter(remained_quota, entry_len)
                  IN  /\ consumed' = consumed + (quota - remained_quota)
                      /\ remained_quota' = quota - entry_len
                      /\ stats' = [key_count |-> stats.key_count + 1,
                                   total_size |-> stats.total_size + entry_len]
    /\ file' = BuildFailure(file)
    /\ bpc' = "err_scan"
    /\ UNCHANGED <<srcCf, liveCf, bmode, brange, scanRest, applyVars, notSnapVars>>

BuildSstFinish ==
    /\ bpc = "scan" /\ bmode = "sst"
    /\ scanRest = <<>>
    /\ file' = SstFinish(file, stats)
    /\ bpc' = "ok"
    /\ UNCHANGED <<srcCf, liveCf, bmode, brange, scanRest, stats, remained_quota, consumed,
                   applyVars, notSnapVars>>

(***************************************************************************)
(* apply_plain_cf_file                                                     *)
(***************************************************************************)

\* The flush test with `>` for `>=`.
ShouldFlushStrict(size, limit) == size > limit

\* `if batch_data_size >= batch_size`
ShouldFlush(size, limit) == size >= limit

\* The terminator branch without the flush of the buffered tail.
FlushAtTerminatorNever(b) == FALSE

\* `if !batch.is_empty()` at the terminator
FlushAtTerminator(b) == b # <<>>

\* A decode whose error is not looked at.
DecodeFailedNever(d) == FALSE

\* box_try!(decoder.decode_compact_bytes()): the error leaves the function.
DecodeFailed(d) == ~d.ok

\* The pair put in front of the buffered pairs.
BatchPushFront(b, key, value) == << <<key, value>> >> \o b

\* batch.push((key, value))
BatchPush(b, key, value) == Append(b, <<key, value>>)

\* write_to_db invoking the callback before the write, whatever the write says.
write_to_db_CallbackFirst(b, db, cb, wr, wfail) ==
    IF wfail THEN [ok |-> FALSE, db |-> db, cb |-> Append(cb, b), wr |-> wr]
    ELSE [ok |-> TRUE, db |-> PutAll(db, b), cb |-> Append(cb, b), wr |-> Append(wr, b)]

\* The write_to_db closure: every pair of the batch is put into the one write
\* batch, the write batch is written (wfail: the engine fails the write, nothing
\* of it is applied), then the callback gets the batch. [ok, db, cb, wr]
write_to_db(b, db, cb, wr, wfail) ==
    IF wfail THEN [ok |-> FALSE, db |-> db, cb |-> cb, wr |-> wr]
    ELSE [ok |-> TRUE, db |-> PutAll(db, b), cb |-> Append(cb, b), wr |-> Append(wr, b)]

\* An abort that writes the buffered pairs on its way out.
ReturnAbortFlushes(b, db, cb, wr) ==
    [db |-> PutAll(db, b), cb |-> Append(cb, b), wr |-> Append(wr, b)]

\* `return Err(Error::Abort)`: the buffered pairs are dropped with the call's
\* locals, nothing is written and nothing called back. [db, cb, wr]
ReturnAbort(b, db, cb, wr) == [db |-> db, cb |-> cb, wr |-> wr]

\* One turn of the loop with the detector asked after the decode, not before.
\* [pc, rdOff, batch, size, db, cb, wr, decoded]
ApplyLoopBodyLateCheck(bytes, off, b, size, limit, db, cb, wr, dec, stale, wfail) ==
    LET k == DecodeCompactBytes(bytes, off)
        v == DecodeCompactBytes(bytes, k.next)
        keep == [pc |-> "loop", rdOff |-> off, batch |-> b, size |-> size, db |-> db,
                 cb |-> cb, wr |-> wr, decoded |-> dec]
    IN  IF ~k.ok THEN [keep EXCEPT !.pc = "err"]
        ELSE IF k.data = <<>>
        THEN IF stale THEN [keep EXCEPT !.pc = "abort"]
             ELSE IF FlushAtTerminator(b)
                  THEN LET w == write_to_db(b, db, cb, wr, wfail)
                       IN  IF w.ok
                           THEN [keep EXCEPT !.pc = "ok", !.rdOff = k.next, !.batch = <<>>,
                                             !.db = w.db, !.cb = w.cb, !.wr = w.wr]
                           ELSE [keep EXCEPT !.pc = "err_write", !.rdOff = k.next,
                                             !.db = w.db, !.cb = w.cb, !.wr = w.wr]
                  ELSE [keep EXCEPT !.pc = "ok", !.rdOff = k.next]
        ELSE IF ~v.ok THEN [keep EXCEPT !.pc = "err"]
        ELSE IF stale
        THEN [keep EXCEPT !.pc = "abort", !.rdOff = v.next, !.decoded = dec + 1]
        ELSE LET nb == BatchPush(b, k.data, v.data)
                 nsize == size + Len(k.data) + Len(v.data)
                 w == write_to_db(nb, db, cb, wr, wfail)
             IN  IF ShouldFlush(nsize, limit)
                 THEN IF w.ok
                      THEN [keep EXCEPT !.rdOff = v.next, !.batch = <<>>, !.size = 0,
                                        !.db = w.db, !.cb = w.cb, !.wr = w.wr,
                                        !.decoded = dec + 1]
                      ELSE [keep EXCEPT !.pc = "err_write", !.rdOff = v.next,
                                        !.batch = nb, !.size = nsize,
                                        !.db = w.db, !.cb = w.cb, !.wr = w.wr,
                                        !.decoded = dec + 1]
                 ELSE [keep EXCEPT !.rdOff = v.next, !.batch = nb, !.size = nsize,
                                   !.decoded = dec + 1]

\* One turn of the loop of apply_plain_cf_file, `stale` being the detector's
\* answer and `wfail` the engine failing the write, if one is made:
\* [pc, rdOff, batch, size, db, cb, wr, decoded].
ApplyLoopBody(bytes, off, b, size, limit, db, cb, wr, dec, stale, wfail) ==
    LET k == DecodeCompactBytes(bytes, off)
        v == DecodeCompactBytes(bytes, k.next)
        keep == [pc |-> "loop", rdOff |-> off, batch |-> b, size |-> size, db |-> db,
                 cb |-> cb, wr |-> wr, decoded |-> dec]
    IN  IF stale
        THEN LET a == ReturnAbort(b, db, cb, wr)
             IN  [keep EXCEPT !.pc = "abort", !.db = a.db, !.cb = a.cb, !.wr = a.wr]
        ELSE IF DecodeFailed(k) THEN [keep EXCEPT !.pc = "err"]
        ELSE IF k.data = <<>>
        THEN IF FlushAtTerminator(b)
             THEN LET w == write_to_db(b, db, cb, wr, wfail)
                  IN  IF w.ok
                      THEN [keep EXCEPT !.pc = "ok", !.rdOff = k.next, !.batch = <<>>,
                                        !.db = w.db, !.cb = w.cb, !.wr = w.wr]
                      ELSE [keep EXCEPT !.pc = "err_write", !.rdOff = k.next,
                                        !.db = w.db, !.cb = w.cb, !.wr = w.wr]
             ELSE [keep EXCEPT !.pc = "ok", !.rdOff = k.next]
        ELSE IF DecodeFailed(v) THEN [keep EXCEPT !.pc = "err"]
        ELSE LET nb == BatchPush(b, k.data, v.data)
                 nsize == size + Len(k.data) + Len(v.data)
                 w == write_to_db(nb, db, cb, wr, wfail)
             IN  IF ShouldFlush(nsize, limit)
                 THEN IF w.ok
                      THEN [keep EXCEPT !.rdOff = v.next, !.batch = <<>>, !.size = 0,
                                        !.db = w.db, !.cb = w.cb, !.wr = w.wr,
                                        !.decoded = dec + 1]
                      ELSE [keep EXCEPT !.pc = "err_write", !.rdOff = v.next,
                                        !.batch = nb, !.size = nsize,
                                        !.db = w.db, !.cb = w.cb, !.wr = w.wr,
                                        !.decoded = dec + 1]
                 ELSE [keep EXCEPT !.rdOff = v.next, !.batch = nb, !.size = nsize,
                                   !.decoded = dec + 1]

\* The file at `path` is not the whole file the build left: it ends after n of
\* its bytes (a copy that stopped, a disk that filled up).
FileTruncated ==
    /\ apc = "idle"
    /\ bpc = "ok" /\ bmode = "plain"
    /\ file.exists
    /\ \E n \in 0..(Len(file.bytes) - 1) :
          file' = [file EXCEPT !.bytes = SubSeq(@, 1, n)]
    /\ bpc' = "cut"
    /\ UNCHANGED <<srcCf, liveCf, bmode, brange, scanRest, stats, remained_quota, consumed,
                   applyVars, notSnapVars>>

\* File::open(path) and the set-up before the loop; the file is the one a build
\* finished or one that lost its end.
ApplyPlainOpen ==
    /\ apc = "idle"
    /\ bpc \in {"ok", "cut"} /\ bmode = "plain"
    /\ \E n \in 0..MaxBatchSize : batch_size' = n
    /\ apc' = IF file.exists THEN "loop" ELSE "err"
    /\ rdOff' = 1
    /\ UNCHANGED <<srcCf, liveCf, file, buildVars, batch, batch_data_size, db1, db10, cbLog, wrLog,
                   answers, decoded, notSnapVars>>

ApplyPlainStep ==
    /\ apc = "loop"
    /\ \E stale \in BOOLEAN, wfail \in BOOLEAN :
          LET r == ApplyLoopBody(file.bytes, rdOff, batch, batch_data_size, batch_size,
                                 db1, cbLog, wrLog, decoded, stale, wfail)
          IN  /\ apc' = r.pc
              /\ rdOff' = r.rdOff
              /\ batch' = r.batch
              /\ batch_data_size' = r.size
              /\ db1' = r.db
              /\ cbLog' = r.cb
              /\ wrLog' = r.wr
              /\ decoded' = r.decoded
              /\ answers' = Append(answers, stale)
    /\ UNCHANGED <<srcCf, liveCf, file, buildVars, batch_size, db10, notSnapVars>>

(***************************************************************************)
(* apply_sst_cf_file                                                       *)
(***************************************************************************)

\* An ingest that loads nothing.
IngestNothing(cf, entries) == cf

\* An ingest that loads the first pair of the file only.
IngestFirstPairOnly(cf, entries) == PutAll(cf, SubSeq(entries, 1, 1))

\* db.ingest_external_file_cf(cf, &[path]): every pair of the file, atomically.
IngestExternalFile(cf, entries) == PutAll(cf, entries)

ApplySst ==
    /\ apc = "idle"
    /\ bpc = "ok" /\ bmode = "sst"
    /\ \E ifail \in BOOLEAN :
          IF file.exists /\ file.finished
          THEN IF ifail
               THEN /\ apc' = "err_ingest"
                    /\ UNCHANGED <<db1, file>>
               ELSE /\ apc' = "ok"
                    /\ db1' = IngestExternalFile(db1, file.entries)
                    \* whether the engine moves or copies the file is its own choice
                    /\ \E moved \in BOOLEAN : file' = IF moved THEN NoFile ELSE file
          ELSE /\ apc' = "err"
               /\ ~ifail
               /\ UNCHANGED <<db1, file>>
    /\ UNCHANGED <<srcCf, liveCf, buildVars, batch_size, rdOff, batch, batch_data_size, db10,
                   cbLog, wrLog, answers, decoded, notSnapVars>>

(***************************************************************************)
(* Snapshot build/apply: specification                                     *)
(***************************************************************************)

InitBuildVars ==
    /\ bpc = "idle"
    /\ bmode = "none"
    /\ brange = [start_key |-> <<>>, end_key |-> <<>>]
    /\ scanRest = <<>>
    /\ stats = [key_count |-> 0, total_size |-> 0]
    /\ remained_quota = 0
    /\ consumed = 0

InitApplyVars ==
    /\ apc = "idle"
    /\ batch_size = 0
    /\ rdOff = 1
    /\ batch = <<>>
    /\ batch_data_size = 0
    /\ db10 = db1
    /\ cbLog = <<>>
    /\ wrLog = <<>>
    /\ answers = <<>>
    /\ decoded = 0

InitSnapVars ==
    /\ srcCf \in CfsOver(SnapKeys, SnapVals, MaxPairs)
    /\ liveCf = srcCf
    /\ file \in {NoFile, StaleFile}
    /\ db1 \in {EmptyCf, [k \in {<<1>>} |-> <<9>>]}
    /\ InitBuildVars
    /\ InitApplyVars

IdleSnapVars ==
    /\ srcCf = EmptyCf
    /\ liveCf = EmptyCf
    /\ file = NoFile
    /\ db1 = EmptyCf
    /\ InitBuildVars
    /\ InitApplyVars

NextSnap ==
    \/ BuildPlainOpen \/ BuildPlainPair \/ BuildPlainFinish \/ BuildPlainPairFails
    \/ BuildSstOpen \/ BuildSstPair \/ BuildSstFinish \/ BuildSstPairFails
    \/ FileTruncated \/ ApplyPlainOpen \/ ApplyPlainStep
    \/ ApplySst

(***************************************************************************)
(* The live store during a build                                           *)
(***************************************************************************)

\* Writers of the live store while a build holds its snapshot handle.
LiveKeys == { <<1>>, <<2>> }
LiveVals == { <<5>> }

\* The column family without key k.
DeleteCf(cf, k) == [x \in (DOMAIN cf) \ {k} |-> cf[x]]

\* A put on the live store, before or between the steps of the build's scan.
LivePut ==
    /\ bpc \in {"idle", "scan"}
    /\ \E k \in LiveKeys, v \in LiveVals :
          /\ ~(k \in DOMAIN liveCf /\ liveCf[k] = v)
          /\ liveCf' = PutCf(liveCf, k, v)
    /\ UNCHANGED <<srcCf, file, buildVars, applyVars, notSnapVars>>

\* A delete on the live store, before or between the steps of the build's scan.
LiveDelete ==
    /\ bpc \in {"idle", "scan"}
    /\ \E k \in LiveKeys :
          /\ k \in DOMAIN liveCf
          /\ liveCf' = DeleteCf(liveCf, k)
    /\ UNCHANGED <<srcCf, file, buildVars, applyVars, notSnapVars>>

\* The builds with the live store written concurrently.
NextBuildLive ==
    \/ BuildPlainOpen \/ BuildPlainPair \/ BuildPlainFinish
    \/ BuildSstOpen \/ BuildSstPair \/ BuildSstFinish
    \/ LivePut \/ LiveDelete

(***************************************************************************)
(* Range deletion: bounds and inputs                                       *)
(***************************************************************************)

\* delete_ranges_cf is given at most this many ranges.
MaxRanges == 2
\* On-disk files of the column family (file 0 is the memtable).
MaxFiles == 1
\* The length of the lists of ranges that overlap one another.
MaxOverlapRanges == 3
\* Calls of delete_ranges_cf in one behaviour: a call and its re-invocation.
MaxCalls == 2

\* MAX_DELETE_COUNT_BY_KEY (2048 in the store) and WRITE_BATCH_MAX_KEYS (256),
\* scaled to the model's four keys.
MAX_DELETE_COUNT_BY_KEY == 2
WRITE_BATCH_MAX_KEYS == 2

DelKeys == { <<1>>, <<2>>, <<2, 1>>, <<3>> }
DelVals == { <<5>> }
DelBounds == { <<1>>, <<2>>, <<2, 1>>, <<4>> }
DelRanges == [start_key : DelBounds, end_key : DelBounds]
DeleteStrategies == {"DeleteFiles", "DeleteByRange", "DeleteByKey", "DeleteByWriter"}

\* Column family names a caller may pass: the one the store has, and one it has not.
CfNames == {"default", "nosuch"}

NoKey == [some |-> FALSE, key |-> <<>>]
NoWriter == [open |-> FALSE, keys |-> <<>>]

(***************************************************************************)
(* Range deletion: the storage capability                                  *)
(***************************************************************************)

\* The column family without the keys of D.
RemoveKeys(c, D) == [k \in (DOMAIN c) \ D |-> c[k]]

SeqToSet(s) == { s[i] : i \in 1..Len(s) }

\* The write of a batch of point deletes.
WriteDeletes(c, keys) == RemoveKeys(c, SeqToSet(keys))

\* An iterator with bounds [lower, upper) after seek(from): the keys it yields.
IterKeys(c, lower, upper, from) ==
    SortKeys({ k \in DOMAIN c :
                 /\ KeyLeq(lower, k) /\ KeyLess(k, upper) /\ KeyLeq(from, k) })

\* The keys on-disk file f holds.
FileKeys(l, f) == { k \in DOMAIN l : l[k] = f }

\* DB::delete_files_in_range_cf(handle, start, end, false): the files whose
\* keys all lie in [start, end) are dropped, with the keys they hold.
DroppedByDeleteFiles(l, r) ==
    UNION { FileKeys(l, f) :
              f \in { g \in 1..MaxFiles :
                        /\ FileKeys(l, g) # {}
                        /\ \A k \in FileKeys(l, g) : InRange(k, r) } }

\* A write batch of range tombstones: every key of a range [start, end) goes.
CoveredByRanges(c, rs) ==
    { k \in DOMAIN c : \E i \in 1..Len(rs) : InRange(k, rs[i]) }

\* util::get_cf_handle(db, cf): Ok for a column family of the store.
KnownCf(name) == name = "default"

Inverted(r) == KeyLess(r.end_key, r.start_key)

\* The test that lets a range with equal bounds through.
DegenerateIfInverted(r) == KeyLess(r.end_key, r.start_key)

\* `r.start_key >= r.end_key`
Degenerate(r) == KeyLeq(r.end_key, r.start_key)

(***************************************************************************)
(* delete_all_in_range_cf_by_key                                           *)
(***************************************************************************)

\* One turn of the loop that stops iterating once a full batch was written.
ByKeyIterStopsAfterWrite(c, keys, w) ==
    LET nw == Append(w, Head(keys))
    IN  IF Len(nw) >= WRITE_BATCH_MAX_KEYS
        THEN [cf |-> WriteDeletes(c, nw), wb |-> <<>>, it |-> <<>>]
        ELSE [cf |-> c, wb |-> nw, it |-> Tail(keys)]

\* One turn of the loop that clears a full batch without writing it.
ByKeyIterDropsBatch(c, keys, w) ==
    LET nw == Append(w, Head(keys))
    IN  IF Len(nw) >= WRITE_BATCH_MAX_KEYS
        THEN [cf |-> c, wb |-> <<>>, it |-> Tail(keys)]
        ELSE [cf |-> c, wb |-> nw, it |-> Tail(keys)]

\* One turn of the loop that writes the batch only once it is over the cap.
ByKeyIterWritesPastCap(c, keys, w) ==
    LET nw == Append(w, Head(keys))
    IN  IF Len(nw) > WRITE_BATCH_MAX_KEYS
        THEN [cf |-> WriteDeletes(c, nw), wb |-> <<>>, it |-> Tail(keys)]
        ELSE [cf |-> c, wb |-> nw, it |-> Tail(keys)]

\* One turn of the while loop: delete_cf into the batch, write and clear the
\* batch when it is full, it.next(). [cf, wb, it]
ByKeyIter(c, keys, w) ==
    LET nw == Append(w, Head(keys))
    IN  IF Len(nw) >= WRITE_BATCH_MAX_KEYS
        THEN [cf |-> WriteDeletes(c, nw), wb |-> <<>>, it |-> Tail(keys)]
        ELSE [cf |-> c, wb |-> nw, it |-> Tail(keys)]

\* The end of the loop without the write of the last, partly filled batch.
ByKeyFlushNothing(c, w) == c

\* After the loop: the batch is written when it holds a delete (then sync).
ByKeyFlush(c, w) == IF Len(w) > 0 THEN WriteDeletes(c, w) ELSE c

(***************************************************************************)
(* delete_all_in_range_cf_by_ingest                                        *)
(***************************************************************************)

\* The ranges taken in the order the caller gave them.
SortRangesNone(rs) == rs

\* ranges.sort_by(start_key): a stable sort by start key.
RECURSIVE InsertRange(_, _)
InsertRange(sorted, r) ==
    IF sorted = <<>> THEN <<r>>
    ELSE IF KeyLess(r.start_key, Head(sorted).start_key)
         THEN <<r>> \o sorted
         ELSE <<Head(sorted)>> \o InsertRange(Tail(sorted), r)

RECURSIVE SortRanges(_)
SortRanges(rs) ==
    IF rs = <<>> THEN <<>>
    ELSE InsertRange(SortRanges(SubSeq(rs, 1, Len(rs) - 1)), rs[Len(rs)])

\* The fold computing max_end_key.
RECURSIVE MaxEndKey(_)
MaxEndKey(rs) ==
    IF Len(rs) = 1 THEN rs[1].end_key
    ELSE LET m == MaxEndKey(SubSeq(rs, 1, Len(rs) - 1))
         IN  IF KeyLess(m, rs[Len(rs)].end_key) THEN rs[Len(rs)].end_key ELSE m

\* The overlap test that never sends a range to by_key.
OverlapsPreviousNever(last, r) == FALSE

\* `last_end_key.map_or(false, |key| key > r.start_key)`
OverlapsPrevious(last, r) == last.some /\ KeyLess(r.start_key, last.key)

\* The test that ends a range's scan, never true: the scan runs to max_end_key.
PastRangeEndNever(key, r) == FALSE

\* `if it.key() >= r.end_key { break; }`
PastRangeEnd(key, r) == KeyLeq(r.end_key, key)

\* The body of the while loop spilling the buffer as soon as it holds
\* MAX_DELETE_COUNT_BY_KEY keys.
IngestKeySpillsAtThreshold(d, w, key) ==
    LET fits == w.keys = <<>> \/ KeyLess(w.keys[Len(w.keys)], key)
        w1 == IF w.open THEN [w EXCEPT !.keys = Append(@, key)] ELSE w
        d1 == IF w.open THEN d ELSE Append(d, key)
    IN  IF w.open /\ ~fits THEN [data |-> d, writer |-> w, ok |-> FALSE]
        ELSE IF Len(d1) >= MAX_DELETE_COUNT_BY_KEY
             THEN [data |-> <<>>, writer |-> [open |-> TRUE, keys |-> d1],
                   ok |-> \A i \in 1..(Len(d1) - 1) : KeyLess(d1[i], d1[i + 1])]
             ELSE [data |-> d1, writer |-> w1, ok |-> TRUE]

\* The body of the while loop for one key: [data, writer, ok]. A closed writer
\* buffers the key in data; data longer than MAX_DELETE_COUNT_BY_KEY is moved into
\* a new writer. The writer refuses a key that is not above its last one.
IngestKey(d, w, key) ==
    LET fits == w.keys = <<>> \/ KeyLess(w.keys[Len(w.keys)], key)
        w1 == IF w.open THEN [w EXCEPT !.keys = Append(@, key)] ELSE w
        d1 == IF w.open THEN d ELSE Append(d, key)
    IN  IF w.open /\ ~fits THEN [data |-> d, writer |-> w, ok |-> FALSE]
        ELSE IF Len(d1) > MAX_DELETE_COUNT_BY_KEY
             THEN [data |-> <<>>, writer |-> [open |-> TRUE, keys |-> d1],
                   ok |-> \A i \in 1..(Len(d1) - 1) : KeyLess(d1[i], d1[i + 1])]
             ELSE [data |-> d1, writer |-> w1, ok |-> TRUE]

\* After the ranges: finish and ingest the writer's file, or write data in batches.
IngestFinishCf(c, d, w) ==
    IF w.open THEN WriteDeletes(c, w.keys) ELSE WriteDeletes(c, d)

\* The operations of writing the deletes of keys in batches of WRITE_BATCH_MAX_KEYS,
\* n being the count of the batch so far.
RECURSIVE BatchLog(_, _)
BatchLog(keys, n) ==
    IF keys = <<>> THEN (IF n > 0 THEN <<"write">> ELSE <<>>)
    ELSE IF n + 1 >= WRITE_BATCH_MAX_KEYS
         THEN <<"cf_handle", "write">> \o BatchLog(Tail(keys), 0)
         ELSE <<"cf_handle">> \o BatchLog(Tail(keys), n + 1)

\* The engine operations after the ranges.
IngestFinishLog(d, w) ==
    IF w.open THEN <<"sst_finish", "cf_handle", "ingest">> ELSE BatchLog(d, 0)

(***************************************************************************)
(* delete_ranges_cf                                                        *)
(***************************************************************************)

CurRange == sranges[ri]

\* The step after range ri of a loop over the ranges: the next range, or donePc.
AfterRange(loopPc, donePc) ==
    IF ri < Len(sranges)
    THEN /\ ri' = ri + 1
         /\ dpc' = loopPc
    ELSE /\ ri' = ri
         /\ dpc' = donePc

\* The entry with DeleteFiles resolving the cf handle before the test for the
\* empty list.
EntryPcHandleFirst(strategy, ranges, cfname) ==
    IF strategy = "DeleteFiles" /\ ~KnownCf(cfname) THEN "err"
    ELSE IF ranges = <<>> THEN "ok"
    ELSE CASE strategy = "DeleteFiles" -> "files"
           [] strategy = "DeleteByRange" -> "byrange"
           [] strategy = "DeleteByKey" -> "bykey_range"
           [] strategy = "DeleteByWriter" -> "ingest_range"

\* Where delete_ranges_cf goes from its entry: Ok for the empty list, else the
\* strategy's branch; DeleteFiles first resolves the cf handle.
EntryPc(strategy, ranges, cfname) ==
    IF ranges = <<>> THEN "ok"
    ELSE CASE strategy = "DeleteFiles" -> IF KnownCf(cfname) THEN "files" ELSE "err"
           [] strategy = "DeleteByRange" -> "byrange"
           [] strategy = "DeleteByKey" -> "bykey_range"
           [] strategy = "DeleteByWriter" -> "ingest_range"

\* The entry of delete_ranges_cf (by_ingest first sorts its copy of the ranges).
Enter(strategy, ranges, cfname) ==
    /\ dstrategy' = strategy
    /\ dranges' = ranges
    /\ dcf' = cfname
    /\ cf0' = dbcf
    /\ ncalls' = ncalls + 1
    /\ ri' = 1
    /\ it' = <<>> /\ wb' = <<>> /\ data' = <<>>
    /\ writer' = NoWriter
    /\ last_end_key' = NoKey
    /\ sranges' = IF strategy = "DeleteByWriter" THEN SortRanges(ranges) ELSE ranges
    /\ dpc' = EntryPc(strategy, ranges, cfname)
    /\ dlog' = IF strategy = "DeleteFiles" /\ dpc' # "ok" THEN <<"cf_handle">> ELSE <<>>
    /\ UNCHANGED <<dbcf, loc, cfStart, invertedVerdict, notDeleteVars>>

DeleteRangesCall ==
    /\ dpc = "idle"
    /\ \E strategy \in DeleteStrategies, ranges \in SeqsUpTo(DelRanges, MaxRanges),
          cfname \in CfNames :
          Enter(strategy, ranges, cfname)

\* DeleteByKey and DeleteByWriter given longer lists, so that a range can overlap
\* several others.
DeleteRangesCallMany ==
    /\ dpc = "idle"
    /\ \E strategy \in {"DeleteByKey", "DeleteByWriter"},
          ranges \in [1..MaxOverlapRanges -> DelRanges] :
          Enter(strategy, ranges, "default")

\* The same call again, after the first one returned Ok.
DeleteRangesAgain ==
    /\ dpc = "ok"
    /\ ncalls < MaxCalls
    /\ Enter(dstrategy, dranges, dcf)

\* DeleteStrategy::DeleteFiles, one range of the loop.
DeleteFilesRange ==
    /\ dpc = "files"
    /\ LET gone == IF Degenerate(CurRange) THEN {}
                   ELSE DroppedByDeleteFiles(loc, CurRange)
       IN  /\ dbcf' = RemoveKeys(dbcf, gone)
           /\ loc' = loc
    /\ dlog' = IF Degenerate(CurRange) THEN dlog ELSE Append(dlog, "delete_files")
    /\ AfterRange("files", "ok")
    /\ UNCHANGED <<dcf, dstrategy, dranges, sranges, it, wb, data, writer, last_end_key,
                   cf0, cfStart, ncalls, invertedVerdict, notDeleteVars>>

\* The loop of DeleteByRange committing each tombstone with a write of its own.
TombstoneWrittenAlone(c, w, r) ==
    [cf |-> RemoveKeys(c, CoveredByRanges(c, <<r>>)), wb |-> w, log |-> <<"cf_handle", "write">>]

\* DeleteStrategy::DeleteByRange, wb.delete_range_cf(cf, start, end) for one range:
\* the tombstone goes into the batch, the store is not touched. [cf, wb, log]
TombstoneAdded(c, w, r) ==
    [cf |-> c, wb |-> Append(w, r), log |-> <<"cf_handle">>]

\* DeleteStrategy::DeleteByRange, one turn of the loop that fills the batch;
\* delete_range_cf fails when the store has no such column family.
DeleteByRangeAdd ==
    /\ dpc = "byrange"
    /\ IF ~KnownCf(dcf)
       THEN /\ dpc' = "err"
            /\ dlog' = Append(dlog, "cf_handle")
            /\ UNCHANGED <<dbcf, wb, ri>>
       ELSE LET r == TombstoneAdded(dbcf, wb, CurRange)
            IN  /\ dbcf' = r.cf
                /\ wb' = r.wb
                /\ dlog' = dlog \o r.log
                /\ AfterRange("byrange", "byrange_write")
    /\ UNCHANGED <<loc, dcf, dstrategy, dranges, sranges, it, data, writer, last_end_key,
                   cf0, cfStart, ncalls, invertedVerdict, notDeleteVars>>

\* DeleteStrategy::DeleteByRange, self.write(&wb): the one write of the batch. The
\* engine's answer to a tombstone whose end is below its start (the write is
\* rejected, or the tombstone taken as empty) is the engine's own; it gives the
\* same answer every time. A rejected write deletes nothing.
DeleteByRangeWrite ==
    /\ dpc = "byrange_write"
    /\ \E verdict \in {"rejects", "accepts"} :
          /\ invertedVerdict \in {"unasked", verdict}
          /\ IF \E i \in 1..Len(wb) : Inverted(wb[i])
             THEN invertedVerdict' = verdict
             ELSE invertedVerdict' = invertedVerdict /\ verdict = "accepts"
          /\ IF verdict = "rejects" /\ \E i \in 1..Len(wb) : Inverted(wb[i])
             THEN /\ dpc' = "err"
                  /\ UNCHANGED <<dbcf, loc>>
             ELSE /\ dpc' = "ok"
                  /\ dbcf' = RemoveKeys(dbcf, CoveredByRanges(dbcf, wb))
                  /\ loc' = loc
    /\ dlog' = Append(dlog, "write")
    /\ UNCHANGED <<dcf, dstrategy, dranges, sranges, ri, it, wb, data, writer, last_end_key,
                   cf0, cfStart, ncalls, notDeleteVars>>

\* delete_all_in_range_cf_by_key: the iterator over [start, end) and the batch;
\* iterator_cf_opt fails when the store has no such column family.
ByKeyRangeStart ==
    /\ dpc = "bykey_range"
    /\ IF KnownCf(dcf)
       THEN /\ it' = IterKeys(dbcf, CurRange.start_key, CurRange.end_key, CurRange.start_key)
            /\ dpc' = "bykey_iter"
       ELSE /\ it' = <<>>
            /\ dpc' = "err"
    /\ wb' = <<>>
    /\ dlog' = Append(dlog, "iterator")
    /\ UNCHANGED <<dbcf, loc, dcf, dstrategy, dranges, sranges, ri, data, writer, last_end_key,
                   cf0, cfStart, ncalls, invertedVerdict, notDeleteVars>>

ByKeyNext ==
    /\ dpc = "bykey_iter"
    /\ it # <<>>
    /\ LET r == ByKeyIter(dbcf, it, wb)
       IN  /\ dbcf' = r.cf
           /\ loc' = loc
           /\ wb' = r.wb
           /\ it' = r.it
           /\ dlog' = dlog \o (IF r.wb = <<>> THEN <<"cf_handle", "write">> ELSE <<"cf_handle">>)
    /\ UNCHANGED <<dpc, dcf, dstrategy, dranges, sranges, ri, data, writer, last_end_key,
                   cf0, cfStart, ncalls, invertedVerdict, notDeleteVars>>

\* The end of delete_all_in_range_cf_by_key: the last batch, the sync, and back
\* to the loop that called it (DeleteByKey's, or by_ingest's `continue`).
ByKeyRangeEnd ==
    /\ dpc = "bykey_iter"
    /\ it = <<>>
    /\ dbcf' = ByKeyFlush(dbcf, wb)
    /\ loc' = loc
    /\ wb' = <<>>
    /\ dlog' = dlog \o (IF Len(wb) > 0 THEN <<"write", "sync">> ELSE <<"sync">>)
    /\ IF dstrategy = "DeleteByWriter"
       THEN AfterRange("ingest_range", "ingest_finish")
       ELSE AfterRange("bykey_range", "ok")
    /\ UNCHANGED <<dcf, dstrategy, dranges, sranges, it, data, writer, last_end_key,
                   cf0, cfStart, ncalls, invertedVerdict, notDeleteVars>>

\* delete_all_in_range_cf_by_ingest, the head of the loop over the sorted ranges:
\* a range that starts below the recorded end key goes to by_key, any other one
\* records its end key and gets an iterator bounded by [ranges[0].start, max_end).
IngestRangeStart ==
    /\ dpc = "ingest_range"
    /\ IF OverlapsPrevious(last_end_key, CurRange)
       THEN /\ it' = IF KnownCf(dcf)
                     THEN IterKeys(dbcf, CurRange.start_key, CurRange.end_key,
                                   CurRange.start_key)
                     ELSE <<>>
            /\ dpc' = IF KnownCf(dcf) THEN "bykey_iter" ELSE "err"
            /\ UNCHANGED last_end_key
       ELSE /\ last_end_key' = [some |-> TRUE, key |-> CurRange.end_key]
            /\ it' = IF KnownCf(dcf)
                     THEN IterKeys(dbcf, sranges[1].start_key, MaxEndKey(sranges),
                                   CurRange.start_key)
                     ELSE <<>>
            /\ dpc' = IF KnownCf(dcf) THEN "ingest_iter" ELSE "err"
    /\ wb' = <<>>
    /\ dlog' = Append(dlog, "iterator")
    /\ UNCHANGED <<dbcf, loc, dcf, dstrategy, dranges, sranges, ri, data, writer,
                   cf0, cfStart, ncalls, invertedVerdict, notDeleteVars>>

IngestNext ==
    /\ dpc = "ingest_iter"
    /\ it # <<>>
    /\ ~PastRangeEnd(Head(it), CurRange)
    /\ LET r == IngestKey(data, writer, Head(it))
       IN  /\ data' = r.data
           /\ writer' = r.writer
           /\ dpc' = IF r.ok THEN "ingest_iter" ELSE "err"
           /\ dlog' = IF r.writer.open /\ ~writer.open
                      THEN Append(dlog, "sst_create") ELSE dlog
    /\ it' = Tail(it)
    /\ UNCHANGED <<dbcf, loc, dcf, dstrategy, dranges, sranges, ri, wb, last_end_key,
                   cf0, cfStart, ncalls, invertedVerdict, notDeleteVars>>

IngestRangeEnd ==
    /\ dpc = "ingest_iter"
    /\ IF it = <<>> THEN TRUE ELSE PastRangeEnd(Head(it), CurRange)
    /\ AfterRange("ingest_range", "ingest_finish")
    /\ it' = <<>>
    /\ UNCHANGED <<dbcf, loc, dcf, dstrategy, dranges, sranges, wb, data, writer, last_end_key,
                   cf0, cfStart, ncalls, invertedVerdict, dlog, notDeleteVars>>

\* After the loop: finish and ingest the writer's file (move_files = true), or
\* write the buffered deletes in batches of WRITE_BATCH_MAX_KEYS.
IngestFinish ==
    /\ dpc = "ingest_finish"
    /\ dbcf' = IngestFinishCf(dbcf, data, writer)
    /\ loc' = loc
    /\ dlog' = dlog \o IngestFinishLog(data, writer)
    /\ dpc' = "ok"
    /\ UNCHANGED <<dcf, dstrategy, dranges, sranges, ri, it, wb, data, writer, last_end_key,
                   cf0, cfStart, ncalls, invertedVerdict, notDeleteVars>>

(***************************************************************************)
(* Range deletion: failed engine operations and interrupted calls          *)
(***************************************************************************)

\* A failed engine operation is logged as the operation followed by "error".

\* A failed operation whose error is dropped: the loop goes on to the next range.
FailedRangeSkipped(loopPc, donePc) == AfterRange(loopPc, donePc)

\* `?` on a failed engine operation inside the loop over the ranges: the call
\* returns the error at once, at the range it was processing.
FailedRange(loopPc, donePc) == dpc' = "err" /\ ri' = ri

\* The loop a range's processing belongs to, and where it goes after the ranges.
LoopPc == IF dstrategy = "DeleteByWriter" THEN "ingest_range" ELSE "bykey_range"
DonePc == IF dstrategy = "DeleteByWriter" THEN "ingest_finish" ELSE "ok"

\* iterator_cf_opt or seek fails.
FailIterator ==
    /\ dpc \in {"bykey_range", "ingest_range"}
    /\ dlog' = dlog \o <<"iterator", "error">>
    /\ FailedRange(LoopPc, DonePc)
    /\ UNCHANGED <<dbcf, loc, dcf, dstrategy, dranges, sranges, it, wb, data, writer,
                   last_end_key, cf0, cfStart, ncalls, invertedVerdict, notDeleteVars>>

\* A turn of by_key's while loop in which delete_cf, the write of the full batch
\* or it.next() fails; a failed next comes after the turn's write.
FailByKeyStep ==
    /\ dpc = "bykey_iter"
    /\ it # <<>>
    /\ \E op \in {"delete_cf", "write", "next"} :
          LET r == ByKeyIter(dbcf, it, wb)
              full == r.wb = <<>>
          IN  /\ op = "write" => full
              /\ dbcf' = IF op = "next" THEN r.cf ELSE dbcf
              /\ dlog' = dlog \o (IF op # "delete_cf" /\ full
                                  THEN <<"cf_handle", "write">> ELSE <<"cf_handle">>)
                               \o <<"error">>
    /\ loc' = loc
    /\ FailedRange(LoopPc, DonePc)
    /\ UNCHANGED <<dcf, dstrategy, dranges, sranges, it, wb, data, writer, last_end_key,
                   cf0, cfStart, ncalls, invertedVerdict, notDeleteVars>>

\* The end of by_key in which the write of the last batch or the sync fails.
FailByKeyEnd ==
    /\ dpc = "bykey_iter"
    /\ it = <<>>
    /\ \E op \in {"write", "sync"} :
          /\ op = "write" => Len(wb) > 0
          /\ dbcf' = IF op = "sync" THEN ByKeyFlush(dbcf, wb) ELSE dbcf
          /\ dlog' = dlog \o (IF op = "write" THEN <<"write">>
                              ELSE IF Len(wb) > 0 THEN <<"write", "sync">> ELSE <<"sync">>)
                           \o <<"error">>
    /\ loc' = loc
    /\ FailedRange(LoopPc, DonePc)
    /\ UNCHANGED <<dcf, dstrategy, dranges, sranges, it, wb, data, writer, last_end_key,
                   cf0, cfStart, ncalls, invertedVerdict, notDeleteVars>>

\* delete_files_in_range_cf fails for a range.
FailDeleteFiles ==
    /\ dpc = "files"
    /\ ~Degenerate(CurRange)
    /\ dlog' = dlog \o <<"delete_files", "error">>
    /\ FailedRange("files", "ok")
    /\ UNCHANGED <<dbcf, loc, dcf, dstrategy, dranges, sranges, it, wb, data, writer,
                   last_end_key, cf0, cfStart, ncalls, invertedVerdict, notDeleteVars>>

\* self.write(&wb) of the batch of range tombstones fails.
FailByRangeWrite ==
    /\ dpc = "byrange_write"
    /\ dpc' = "err"
    /\ dlog' = dlog \o <<"write", "error">>
    /\ UNCHANGED <<dbcf, loc, dcf, dstrategy, dranges, sranges, ri, it, wb, data, writer,
                   last_end_key, cf0, cfStart, ncalls, invertedVerdict, notDeleteVars>>

\* A turn of by_ingest's while loop in which writer.delete, the build of the
\* writer or it.next() fails.
FailIngestStep ==
    /\ dpc = "ingest_iter"
    /\ it # <<>>
    /\ ~PastRangeEnd(Head(it), CurRange)
    /\ dlog' = Append(dlog, "error")
    /\ FailedRange("ingest_range", "ingest_finish")
    /\ UNCHANGED <<dbcf, loc, dcf, dstrategy, dranges, sranges, it, wb, data, writer,
                   last_end_key, cf0, cfStart, ncalls, invertedVerdict, notDeleteVars>>

\* The number of writes that commit data in batches of WRITE_BATCH_MAX_KEYS.
BatchWrites(d) == (Len(d) + WRITE_BATCH_MAX_KEYS - 1) \div WRITE_BATCH_MAX_KEYS

\* The first n batches of d.
FirstBatches(d, n) ==
    SubSeq(d, 1, IF n * WRITE_BATCH_MAX_KEYS < Len(d) THEN n * WRITE_BATCH_MAX_KEYS
                 ELSE Len(d))

\* After the ranges: finish, cf_handle or the ingest fails and nothing was
\* deleted; or, without a writer, one of the batch writes fails after the
\* batches before it were committed.
FailIngestFinish ==
    /\ dpc = "ingest_finish"
    /\ IF writer.open
       THEN /\ dbcf' = dbcf
            /\ \E n \in 1..3 : dlog' = dlog \o SubSeq(IngestFinishLog(data, writer), 1, n)
                                           \o <<"error">>
       ELSE \E n \in 0..(BatchWrites(data) - 1) :
               /\ dbcf' = WriteDeletes(dbcf, FirstBatches(data, n))
               /\ dlog' = dlog \o BatchLog(FirstBatches(data, n + 1), 0) \o <<"error">>
    /\ loc' = loc
    /\ dpc' = "err"
    /\ UNCHANGED <<dcf, dstrategy, dranges, sranges, ri, it, wb, data, writer, last_end_key,
                   cf0, cfStart, ncalls, invertedVerdict, notDeleteVars>>

\* The process stops between two engine operations of a call: what was written
\* stays written, the call's memory is lost.
Interrupt ==
    /\ dpc \in {"files", "byrange", "byrange_write", "bykey_range", "bykey_iter",
                "ingest_range", "ingest_iter", "ingest_finish"}
    /\ dpc' = "crashed"
    /\ ri' = 1
    /\ it' = <<>> /\ wb' = <<>> /\ data' = <<>>
    /\ writer' = NoWriter
    /\ last_end_key' = NoKey
    /\ UNCHANGED <<dbcf, loc, dcf, dstrategy, dranges, sranges, cf0, cfStart, ncalls,
                   invertedVerdict, dlog, notDeleteVars>>

\* The same call again, after the first one failed or was interrupted.
DeleteRangesRetry ==
    /\ dpc \in {"err", "crashed"}
    /\ ncalls < MaxCalls
    /\ Enter(dstrategy, dranges, dcf)

(***************************************************************************)
(* Range deletion: specification                                           *)
(***************************************************************************)

InitCallVars ==
    /\ dpc = "idle"
    /\ dstrategy = "none"
    /\ dranges = <<>>
    /\ sranges = <<>>
    /\ ri = 1
    /\ it = <<>> /\ wb = <<>> /\ data = <<>>
    /\ writer = NoWriter
    /\ last_end_key = NoKey
    /\ cf0 = dbcf
    /\ cfStart = dbcf
    /\ dcf = "default"
    /\ dlog = <<>>
    /\ ncalls = 0
    /\ invertedVerdict = "unasked"

InitDeleteVars ==
    /\ dbcf \in CfsOver(DelKeys, DelVals, Cardinality(DelKeys))
    /\ loc \in [DOMAIN dbcf -> 0..MaxFiles]
    /\ InitCallVars

IdleDeleteVars ==
    /\ dbcf = EmptyCf
    /\ loc = EmptyCf
    /\ InitCallVars

NextDelete ==
    \/ DeleteRangesCall \/ DeleteRangesAgain
    \/ DeleteFilesRange
    \/ DeleteByRangeAdd \/ DeleteByRangeWrite
    \/ ByKeyRangeStart \/ ByKeyNext \/ ByKeyRangeEnd
    \/ IngestRangeStart \/ IngestNext \/ IngestRangeEnd \/ IngestFinish

(***************************************************************************)
(* Specifications                                                          *)
(***************************************************************************)

InitSplit == InitSplitVars /\ IdleSnapVars /\ IdleDeleteVars
NextSplit == PreProposeSplit \/ PreProposeBatchSplit \/ PreProposeOther
SpecSplit == InitSplit /\ [][NextSplit]_vars

InitSnap == InitSnapVars /\ IdleSplitVars /\ IdleDeleteVars
SpecSnap == InitSnap /\ [][NextSnap]_vars
SpecBuildLive == InitSnap /\ [][NextBuildLive]_vars

InitDelete == InitDeleteVars /\ IdleSplitVars /\ IdleSnapVars
SpecDelete == InitDelete /\ [][NextDelete]_vars

\* DeleteByKey and DeleteByWriter on lists of MaxOverlapRanges ranges, the store
\* holding its keys in the memtable.
InitDeleteMany ==
    /\ dbcf \in CfsOver(DelKeys, DelVals, Cardinality(DelKeys))
    /\ loc = [k \in DOMAIN dbcf |-> 0]
    /\ InitCallVars
    /\ IdleSplitVars /\ IdleSnapVars
NextDeleteMany ==
    \/ DeleteRangesCallMany
    \/ ByKeyRangeStart \/ ByKeyNext \/ ByKeyRangeEnd
    \/ IngestRangeStart \/ IngestNext \/ IngestRangeEnd \/ IngestFinish
SpecDeleteMany == InitDeleteMany /\ [][NextDeleteMany]_vars

\* The calls with failing engine operations, interruptions and retries.
NextDeleteFault ==
    \/ NextDelete
    \/ FailIterator \/ FailByKeyStep \/ FailByKeyEnd
    \/ FailDeleteFiles \/ FailByRangeWrite
    \/ FailIngestStep \/ FailIngestFinish
    \/ Interrupt \/ DeleteRangesRetry
SpecDeleteFault == InitDelete /\ [][NextDeleteFault]_vars

(***************************************************************************)
(* Split-key adjuster: claims                                              *)
(***************************************************************************)

\* The call has returned and the adjuster (on_split) was run by it.
AdjusterRan ==
    /\ splitRet # "pending"
    /\ \/ req0.cmd_type = "Split" /\ req0.has_split
       \/ req0.cmd_type = "BatchSplit" /\ req0.has_splits

\* The candidates handed to the adjuster, and the list the request carries now.
Candidates == IF req0.cmd_type = "Split" THEN <<req0.split>> ELSE req0.requests
ResultSplits == IF req.cmd_type = "Split" THEN <<req.split>> ELSE req.requests
KeysOf(s) == [i \in 1..Len(s) |-> s[i].split_key]

\* The candidates after suffix stripping, and the indices of the valid ones.
Stripped == [i \in 1..Len(Candidates) |-> strip_timestamp_if_exists(Candidates[i].split_key)]
ValidIdx == { i \in 1..Len(Candidates) : is_valid_split_key(Stripped[i], region) }
\* The indices (new_region_id is the candidate's index) of the candidates kept.
KeptIdx == { ResultSplits[i].new_region_id : i \in 1..Len(ResultSplits) }

\* C8: when the adjuster returns Ok the split keys of the result are strictly
\* increasing, and a valid candidate is kept iff it is the first valid one or is
\* strictly greater than the last candidate kept before it.
C8_StrictlyIncreasing ==
    (AdjusterRan /\ splitRet = "Ok") =>
        /\ \A i \in 1..Len(ResultSplits) : \A j \in 1..Len(ResultSplits) :
              i < j => KeyLess(ResultSplits[i].split_key, ResultSplits[j].split_key)
        /\ KeptIdx \subseteq ValidIdx
        /\ \A i \in ValidIdx :
              LET before == { k \in KeptIdx : k < i }
              IN  (i \in KeptIdx) <=>
                     \/ before = {}
                     \/ LET last == CHOOSE k \in before : \A l \in before : l <= k
                        IN  KeyLess(Stripped[last], Stripped[i])

\* A batch in which the ordering rule dropped a tie and a decrease and kept two keys.
C8_Witness ==
    /\ AdjusterRan /\ splitRet = "Ok"
    /\ Len(ResultSplits) >= 2
    /\ \E i \in ValidIdx \ KeptIdx : \E k \in KeptIdx : k < i /\ Stripped[k] = Stripped[i]
    /\ \E i \in ValidIdx \ KeptIdx : \E k \in KeptIdx : k < i /\ KeyLess(Stripped[i], Stripped[k])

ExampleRan ==
    /\ splitRet # "pending"
    /\ region = ExampleRegion
    /\ req0.cmd_type = "BatchSplit" /\ req0.has_splits
    /\ KeysOf(req0.requests) = ExampleKeys

\* C9 as stated: the candidates [b, a, d, d, c] in region ("", "z") yield [a, b, c, d].
C9_Original ==
    ExampleRan => (splitRet = "Ok" /\ KeysOf(req.requests) = << <<1>>, <<2>>, <<3>>, <<4>> >>)

\* C9 amended: the candidates [b, a, d, d, c] in region ("", "z") yield [b, d], the
\* first and the third request: a, the second d and c are dropped, nothing is sorted.
C9_ExampleYieldsBD ==
    ExampleRan =>
        /\ splitRet = "Ok"
        /\ req.requests = << MkSplit(<<2>>, 1), MkSplit(<<4>>, 3) >>

C9_Witness == ExampleRan /\ Len(req.requests) = 2

\* C10: the adjuster fails iff no candidate is valid after suffix stripping; on Ok
\* the list is non-empty (a Split command carries its one split, stripped), and an
\* invalid candidate does not fail a batch in which another candidate is valid.
C10_ErrIffNoneSurvives ==
    AdjusterRan =>
        /\ (splitRet = "Err") <=> (ValidIdx = {})
        /\ (splitRet = "Ok") <=> (ValidIdx # {})
        /\ splitRet = "Ok" => Len(ResultSplits) >= 1
        /\ (splitRet = "Ok" /\ req0.cmd_type = "Split") =>
              /\ req.has_split
              /\ req.split = MkSplit(Stripped[1], req0.split.new_region_id)

\* A batch with an invalid candidate and a surviving one, which returned Ok.
C10_Witness ==
    /\ AdjusterRan /\ splitRet = "Ok"
    /\ req0.cmd_type = "BatchSplit"
    /\ \E i \in 1..Len(Candidates) : i \notin ValidIdx
    /\ ValidIdx # {}

\* C11 as stated: when the adjuster fails because no candidate survives, the admin
\* request carries the split list it carried before the call, with the same
\* unstripped split keys.
C11_Original ==
    (AdjusterRan /\ splitRet = "Err") => req = req0

\* C12: every split key the adjuster returns is the stripped key of its candidate,
\* is non-empty and lies strictly between the region's start_key and end_key; a
\* candidate that after stripping is empty, equals start_key or is not below
\* end_key is dropped, and the batch still succeeds when another candidate is valid.
C12_InsideRegion ==
    (AdjusterRan /\ ValidIdx # {}) =>
        /\ splitRet = "Ok"
        /\ \A i \in 1..Len(ResultSplits) :
              LET key == ResultSplits[i].split_key
              IN  /\ key = Stripped[ResultSplits[i].new_region_id]
                  /\ key # <<>>
                  /\ KeyLess(region.start_key, key)
                  /\ KeyLess(key, region.end_key)
        /\ \A i \in 1..Len(Candidates) :
              (\/ Stripped[i] = <<>>
               \/ Stripped[i] = region.start_key
               \/ ~KeyLess(Stripped[i], region.end_key)) => i \notin KeptIdx

\* A batch that returned Ok although one candidate stripped to start_key and one
\* was not below end_key.
C12_Witness ==
    /\ AdjusterRan /\ splitRet = "Ok"
    /\ req0.cmd_type = "BatchSplit"
    /\ \E i \in 1..Len(Candidates) :
          Stripped[i] = region.start_key /\ Candidates[i].split_key # Stripped[i]
    /\ \E i \in 1..Len(Candidates) : KeyLeq(region.end_key, Stripped[i])
    /\ Len(ResultSplits) = 1

\* The bytes of candidate key c that the decoder consumed: the length byte and
\* the payload.
Consumed(c) == SubSeq(c, 1, 1 + c[1])

\* Two candidate keys that are versions of one record: both decode, to the same
\* encoded key.
SameRecord(c, d) ==
    DecodeBytesOk(c) /\ DecodeBytesOk(d) /\ Consumed(c) = Consumed(d)

\* C13: a returned split key whose candidate decodes as a length-prefixed encoded
\* key is the bytes the decoder consumed, with all the trailing bytes removed (so
\* it decodes with nothing left over), and a returned key whose candidate does
\* not decode is the candidate unchanged; candidates that differ only in their
\* version suffix strip to the same key, of which the result holds at most one.
C13_SuffixStripped ==
    (AdjusterRan /\ splitRet = "Ok") =>
        /\ \A i \in 1..Len(ResultSplits) :
              LET c == Candidates[ResultSplits[i].new_region_id].split_key
                  key == ResultSplits[i].split_key
              IN  IF DecodeBytesOk(c)
                  THEN /\ key = Consumed(c)
                       /\ key \o DecodeBytesRest(c) = c
                       /\ DecodeBytesOk(key) /\ DecodeBytesRest(key) = <<>>
                  ELSE key = c
        /\ \A i, j \in 1..Len(Candidates) :
              SameRecord(Candidates[i].split_key, Candidates[j].split_key) =>
                  /\ Stripped[i] = Stripped[j]
                  /\ (i \in KeptIdx /\ j \in KeptIdx) => i = j

\* A batch with two versions of one record and a raw key: the record's key is
\* returned once, without its suffix, and the raw key as it was.
C13_Witness ==
    /\ AdjusterRan /\ splitRet = "Ok"
    /\ \E i, j \in 1..Len(Candidates) :
          /\ i # j
          /\ Candidates[i].split_key # Candidates[j].split_key
          /\ SameRecord(Candidates[i].split_key, Candidates[j].split_key)
          /\ i \in KeptIdx
          /\ Candidates[i].split_key # Stripped[i]
    /\ \E i \in KeptIdx : ~DecodeBytesOk(Candidates[i].split_key)

\* C33: pre_propose_admin returns Ok and leaves the request as it was for a
\* command that is neither Split nor BatchSplit; it returns an error, the request
\* as it was, for a Split without a split payload and a BatchSplit without a
\* splits payload; and when it returns Ok for a Split or a BatchSplit the request
\* carries the adjusted list, all of it and nothing else, its other fields as
\* they were.
C33_RequestAfterPrePropose ==
    splitRet # "pending" =>
        /\ req0.cmd_type \notin {"Split", "BatchSplit"} =>
              (splitRet = "Ok" /\ req = req0)
        /\ (req0.cmd_type = "Split" /\ ~req0.has_split) =>
              (splitRet = "Err" /\ req = req0)
        /\ (req0.cmd_type = "BatchSplit" /\ ~req0.has_splits) =>
              (splitRet = "Err" /\ req = req0)
        /\ (req0.cmd_type = "Split" /\ splitRet = "Ok") =>
              /\ req0.has_split
              /\ <<req.split>> = AdjustedSplits(<<req0.split>>, region)
              /\ req = [req0 EXCEPT !.split = req.split]
        /\ (req0.cmd_type = "BatchSplit" /\ splitRet = "Ok") =>
              /\ req0.has_splits
              /\ req.requests = AdjustedSplits(req0.requests, region)
              /\ req.requests # <<>>
              /\ req = [req0 EXCEPT !.requests = req.requests]

\* A BatchSplit of three candidates returned Ok with the two that survived.
C33_Witness ==
    /\ req0.cmd_type = "BatchSplit" /\ splitRet = "Ok"
    /\ Len(req0.requests) = 3
    /\ Len(req.requests) = 2
    /\ req.requests = AdjustedSplits(req0.requests, region)

\* The least and the greatest index of a non-empty set of indices.
MinIdx(S) == CHOOSE i \in S : \A j \in S : i <= j
MaxIdx(S) == CHOOSE i \in S : \A j \in S : j <= i

\* C37: the adjuster does not reorder: when it returns Ok the result is the
\* candidates at increasing positions of the input, each valid and carrying its
\* stripped key; the first valid candidate is the first of the result; a later
\* valid candidate that is less than or equal to the candidate kept last before
\* it is not in the result, whatever follows it; and the adjuster returns Ok
\* whenever a candidate is valid.
C37_SubsequenceInOrder ==
    AdjusterRan =>
        /\ ValidIdx # {} <=> splitRet = "Ok"
        /\ splitRet = "Ok" =>
              /\ \A i \in 1..Len(ResultSplits) :
                    /\ ResultSplits[i].new_region_id \in ValidIdx
                    /\ ResultSplits[i].split_key = Stripped[ResultSplits[i].new_region_id]
                    /\ i > 1 => ResultSplits[i - 1].new_region_id
                                   < ResultSplits[i].new_region_id
              /\ ResultSplits[1].new_region_id = MinIdx(ValidIdx)
              /\ \A i \in ValidIdx \ {MinIdx(ValidIdx)} :
                    LET last == MaxIdx({ k \in KeptIdx : k < i })
                    IN  KeyLeq(Stripped[i], Stripped[last]) => i \notin KeptIdx

\* Three valid candidates, the second less than the first and the third greater:
\* the result is the first and the third, the second, a valid boundary on its
\* own, is dropped and not moved in front of the first.
C37_Witness ==
    /\ AdjusterRan /\ splitRet = "Ok"
    /\ ValidIdx = {1, 2, 3}
    /\ KeyLess(Stripped[2], Stripped[1]) /\ KeyLess(Stripped[1], Stripped[3])
    /\ KeysOf(ResultSplits) = <<Stripped[1], Stripped[3]>>

(***************************************************************************)
(* Snapshot build/apply: claims                                            *)
(***************************************************************************)

\* The pairs of the snapshot inside the build's range.
KeysInRange == { k \in DOMAIN srcCf : InRange(k, brange) }
SourcePairs == [k \in KeysInRange |-> srcCf[k]]

\* C1: a non-empty set of pairs with distinct non-empty keys in [start, end), built
\* into a plain file and applied into an empty target CF with a detector that is
\* never stale, whatever the batch size, leaves the target holding exactly those pairs.
C1_PlainRoundTrip ==
    ( /\ bmode = "plain" /\ bpc = "ok"
      /\ apc \in {"ok", "err"}
      /\ KeysInRange # {} /\ <<>> \notin KeysInRange
      /\ db10 = EmptyCf )
    => (apc = "ok" /\ db1 = SourcePairs)

\* A round trip of three pairs written in two batches, beside a key out of range.
C1_Witness ==
    /\ bmode = "plain" /\ bpc = "ok" /\ apc = "ok"
    /\ <<>> \notin KeysInRange /\ db10 = EmptyCf
    /\ Cardinality(KeysInRange) >= 2
    /\ Cardinality(DOMAIN srcCf) > Cardinality(KeysInRange)
    /\ Len(cbLog) >= 2
    /\ db1 = SourcePairs

\* C2: a non-empty set of pairs in [start, end), built into an SST file and
\* ingested into an empty target CF, leaves the target holding exactly those pairs.
C2_SstRoundTrip ==
    ( /\ bmode = "sst" /\ bpc = "ok"
      /\ apc \in {"ok", "err"}
      /\ KeysInRange # {}
      /\ db10 = EmptyCf )
    => (apc = "ok" /\ db1 = SourcePairs)

C2_Witness ==
    /\ bmode = "sst" /\ bpc = "ok" /\ apc = "ok"
    /\ db10 = EmptyCf
    /\ Cardinality(KeysInRange) >= 2
    /\ Cardinality(DOMAIN srcCf) > Cardinality(KeysInRange)
    /\ db1 = SourcePairs

\* C3: when a build (plain or SST) has returned Ok, a file exists at the path iff
\* key_count >= 1; with key_count = 0 nothing is left at the path.
C3_EmptyRangeNoFile ==
    (bpc = "ok" /\ apc = "idle") =>
        /\ file.exists <=> stats.key_count >= 1
        /\ stats.key_count = 0 => file = NoFile
        /\ stats.key_count = Cardinality(KeysInRange)

\* A build over a range that holds no key of a column family that is not empty.
C3_Witness ==
    /\ bpc = "ok" /\ apc = "idle"
    /\ srcCf # EmptyCf
    /\ stats.key_count = 0
    /\ ~file.exists

AllFalse(s) == \A i \in 1..Len(s) : ~s[i]

\* C7: the detector is queried once per turn of the loop, before the decode; when
\* it answers false N times and then true the call returns Abort with exactly N
\* records decoded, that last turn writes nothing and calls nothing back, and the
\* batches flushed before it are in the target CF.
C7_Cancellation ==
    /\ [](/\ apc = "loop" => (Len(answers) = decoded /\ AllFalse(answers))
          /\ (answers # <<>> /\ answers[Len(answers)]) => apc = "abort"
          /\ apc = "abort" =>
                /\ Len(answers) = decoded + 1
                /\ AllFalse(SubSeq(answers, 1, decoded))
                /\ answers[decoded + 1]
                /\ \A i \in 1..Len(cbLog) : \A j \in 1..Len(cbLog[i]) :
                      /\ cbLog[i][j][1] \in DOMAIN db1
                      /\ db1[cbLog[i][j][1]] = cbLog[i][j][2])
    /\ [][apc' = "abort" =>
            (db1' = db1 /\ cbLog' = cbLog /\ decoded' = decoded /\ batch' = batch)]_vars

\* An abort after two records, one batch flushed and one record still buffered.
C7_Witness ==
    /\ apc = "abort"
    /\ decoded >= 2
    /\ Len(cbLog) >= 1
    /\ batch # <<>>

\* C15: build_plain_cf_file on a path where a file exists returns an error without
\* scanning, and leaves the file as it was: not truncated, appended to or removed.
C15_ExistingPathRefused ==
    /\ []((bmode = "plain" /\ bpc = "err") =>
             /\ file = StaleFile
             /\ scanRest = <<>>
             /\ stats = [key_count |-> 0, total_size |-> 0])
    /\ [][(bpc = "idle" /\ file.exists /\ bmode' = "plain") =>
             (bpc' = "err" /\ file' = file /\ scanRest' = scanRest /\ stats' = stats)]_vars

\* The build was refused although the snapshot held pairs of the range.
C15_Witness ==
    /\ bmode = "plain" /\ bpc = "err"
    /\ file = StaleFile
    /\ KeysInRange # {}

\* The summed key+value length of a sequence of pairs.
RECURSIVE SumLen(_)
SumLen(pairs) ==
    IF pairs = <<>> THEN 0
    ELSE Len(Head(pairs)[1]) + Len(Head(pairs)[2]) + SumLen(Tail(pairs))

\* C16: apply_plain_cf_file flushes exactly when the summed key+value length of
\* the buffered pairs, the record just read included, is at least batch_size, or
\* at the terminator with a non-empty buffer; so with batch_size > 0 the pairs
\* buffered after a record was processed sum to less than batch_size, however
\* many they are.
C16_FlushOnBytesOnly ==
    /\ [](apc = "loop" =>
             /\ batch_data_size = SumLen(batch)
             /\ batch_size > 0 => SumLen(batch) < batch_size)
    /\ [][apc = "loop" =>
             LET written == Len(wrLog') > Len(wrLog)
                 flushed == written \/ apc' = "err_write"
                 record == decoded' = decoded + 1
                 terminator == ~record /\ apc' \in {"ok", "err_write"}
                 buffered == IF written THEN wrLog'[Len(wrLog')] ELSE batch'
             IN  flushed <=> \/ record /\ SumLen(buffered) >= batch_size
                             \/ terminator /\ batch # <<>>]_vars

\* With batch_size > 0, two pairs were flushed together when their bytes reached
\* batch_size and a third pair, smaller than batch_size, is buffered.
C16_Witness ==
    /\ apc = "loop"
    /\ batch_size > 0
    /\ Len(wrLog) = 1 /\ Len(wrLog[1]) = 2
    /\ SumLen(SubSeq(wrLog[1], 1, 1)) < batch_size
    /\ Len(batch) = 1

\* The batches of a log, one after the other.
RECURSIVE Concat(_)
Concat(log) == IF log = <<>> THEN <<>> ELSE Head(log) \o Concat(Tail(log))

\* The records of a plain file up to its first zero-length key, in file order.
RECURSIVE RecordsFrom(_, _)
RecordsFrom(bytes, off) ==
    LET k == DecodeCompactBytes(bytes, off)
        v == DecodeCompactBytes(bytes, k.next)
    IN  IF ~k.ok \/ k.data = <<>> \/ ~v.ok THEN <<>>
        ELSE << <<k.data, v.data>> >> \o RecordsFrom(bytes, v.next)

FileRecords(bytes) == RecordsFrom(bytes, 1)

IsPrefix(s, t) == Len(s) <= Len(t) /\ s = SubSeq(t, 1, Len(s))

\* C17: every flush of apply_plain_cf_file is one write of all the buffered pairs
\* and one callback, made after the write succeeded, with the pairs just written:
\* the callbacks' arguments are the batches written, none is empty, the target
\* holds what was written, the pairs arrive in file order, a flush empties the
\* buffer; when the call returns Ok the callbacks' arguments, one after the
\* other, are the records of the file.
C17_CallbackPerFlush ==
    /\ []((bmode = "plain" /\ apc # "idle") =>
             /\ cbLog = wrLog
             /\ \A i \in 1..Len(cbLog) : cbLog[i] # <<>>
             /\ db1 = PutAll(db10, Concat(wrLog))
             /\ IsPrefix(Concat(cbLog) \o batch, FileRecords(file.bytes))
             /\ apc = "ok" => /\ Concat(cbLog) = FileRecords(file.bytes)
                              /\ batch = <<>>)
    /\ [][/\ Len(wrLog') <= Len(wrLog) + 1
          /\ Len(cbLog') <= Len(cbLog) + 1
          /\ Len(wrLog') = Len(wrLog) + 1 =>
                /\ batch' = <<>>
                /\ SubSeq(wrLog', 1, Len(wrLog)) = wrLog
                /\ IsPrefix(batch, wrLog'[Len(wrLog')])]_vars

\* The call returned Ok after a callback with two pairs and a second callback, at
\* the terminator, with the last pair.
C17_Witness ==
    /\ bmode = "plain" /\ apc = "ok"
    /\ Len(cbLog) = 2
    /\ Len(cbLog[1]) = 2
    /\ Len(cbLog[2]) = 1
    /\ batch_size > 0

\* The plain encoding of a sequence of pairs: key and value, each compact bytes.
RECURSIVE EncodePairs(_)
EncodePairs(pairs) ==
    IF pairs = <<>> THEN <<>>
    ELSE EncodeCompactBytes(Head(pairs)[1]) \o EncodeCompactBytes(Head(pairs)[2])
            \o EncodePairs(Tail(pairs))

\* The pairs of [start, end) as of the snapshot handle.
SnapshotPairs == ScanRange(srcCf, brange)

\* C18: whatever is put to or deleted from the live store before and between the
\* steps of a build's scan, the file the build produces holds exactly the pairs
\* of [start, end) as of the snapshot, in order: the plain file is their encoding
\* and the terminator, the SST file has them as its entries, and no file is left
\* when the snapshot has no pair in the range.
C18_BuildReadsSnapshot ==
    /\ bpc = "scan" =>
          (IF bmode = "plain" THEN file.bytes \o EncodePairs(scanRest)
                                     = EncodePairs(SnapshotPairs)
                              ELSE file.entries \o scanRest = SnapshotPairs)
    /\ (bpc = "ok" /\ SnapshotPairs = <<>>) => file = NoFile
    /\ (bpc = "ok" /\ SnapshotPairs # <<>>) =>
          /\ file.exists
          /\ bmode = "plain" =>
                file.bytes = EncodePairs(SnapshotPairs) \o EncodeCompactBytes(<<>>)
          /\ bmode = "sst" => file.entries = SnapshotPairs

\* A build returned Ok with a file after the live store had a key of the range
\* put and another deleted.
C18_Witness ==
    /\ bpc = "ok" /\ file.exists
    /\ liveCf # srcCf
    /\ \E k \in LiveKeys : InRange(k, brange) /\ k \in DOMAIN srcCf /\ k \notin DOMAIN liveCf
    /\ \E k \in LiveKeys : InRange(k, brange) /\ k \in DOMAIN liveCf /\ k \notin DOMAIN srcCf

\* C19: a build that returned Ok with key_count >= 1 leaves a complete, synced
\* file: the plain file is the key_count records followed by one zero-length-key
\* terminator, which is its last item and was appended to the records by the
\* step that returned, the sync coming after it; the SST file has key_count
\* entries and its writer was finished before the sync.
C19_CompleteAndSynced ==
    /\ []((bpc = "ok" /\ apc = "idle" /\ stats.key_count >= 1) =>
             /\ file.exists /\ file.synced
             /\ bmode = "plain" =>
                   /\ file.kind = "plain"
                   /\ Len(FileRecords(file.bytes)) <= stats.key_count
                   /\ file.bytes = EncodePairs(ScanRange(srcCf, brange))
                                      \o EncodeCompactBytes(<<>>)
                   /\ Len(ScanRange(srcCf, brange)) = stats.key_count
             /\ bmode = "sst" =>
                   /\ file.kind = "sst"
                   /\ file.finished
                   /\ Len(file.entries) = stats.key_count)
    /\ [][(bpc = "scan" /\ bpc' = "ok" /\ stats.key_count >= 1) =>
             /\ ~file.synced /\ file'.synced
             /\ bmode = "plain" =>
                   file'.bytes = file.bytes \o EncodeCompactBytes(<<>>)
             /\ bmode = "sst" =>
                   ~file.finished /\ file'.finished /\ file'.entries = file.entries]_vars

\* A plain build returned Ok with two records and the terminator, synced.
C19_Witness ==
    /\ bpc = "ok" /\ apc = "idle" /\ bmode = "plain"
    /\ stats.key_count = 2
    /\ Len(FileRecords(file.bytes)) = 2
    /\ file.bytes[Len(file.bytes)] = 0
    /\ file.synced

\* C23: apply_sst_cf_file is one bulk ingest of the file and nothing else: it
\* ends in one step, writes no batch, calls nothing back and asks no stale
\* detector; when it returns Ok the target holds what it held plus every pair of
\* the file, and when the ingest fails or the file is missing the target is as
\* it was.
C23_OneIngestOnly ==
    /\ []((bmode = "sst" /\ apc # "idle") =>
             /\ apc \in {"ok", "err", "err_ingest"}
             /\ wrLog = <<>> /\ cbLog = <<>> /\ answers = <<>>
             /\ batch = <<>> /\ decoded = 0
             /\ apc = "ok" => db1 = PutAll(db10, ScanRange(srcCf, brange))
             /\ apc # "ok" => db1 = db10)
    /\ [][(bmode = "sst" /\ apc = "idle" /\ apc' # "idle") =>
             \/ apc' = "ok" /\ db1' = PutAll(db1, file.entries)
             \/ apc' \in {"err", "err_ingest"} /\ db1' = db1 /\ file' = file]_vars

\* An ingest of a file of two pairs into a target that held another pair.
C23_Witness ==
    /\ bmode = "sst" /\ apc = "ok"
    /\ stats.key_count = 2
    /\ db10 # EmptyCf
    /\ Cardinality(DOMAIN db1) = 3
    /\ wrLog = <<>> /\ answers = <<>>

\* C28: build_sst_cf_file takes bytes from the limiter in whole chunks of
\* IO_LIMITER_CHUNK_SIZE, before the pair they pay for is put: after every pair
\* the bytes taken cover the key and value bytes put so far, the unused quota is
\* what was taken and not put and lies in [0, IO_LIMITER_CHUNK_SIZE), so the
\* subtraction never goes below zero and the bytes taken exceed total_size by
\* less than one chunk; a pair the quota covers takes nothing; the pair is in the
\* file afterwards unless its put failed.
C28_LimiterInChunks ==
    /\ [](bmode = "sst" =>
             /\ consumed % IO_LIMITER_CHUNK_SIZE = 0
             /\ remained_quota >= 0
             /\ remained_quota < IO_LIMITER_CHUNK_SIZE
             /\ consumed = stats.total_size + remained_quota
             /\ consumed >= stats.total_size
             /\ consumed - stats.total_size < IO_LIMITER_CHUNK_SIZE)
    /\ [][(bmode = "sst" /\ stats'.key_count = stats.key_count + 1) =>
             LET entry_len == stats'.total_size - stats.total_size
             IN  /\ consumed' >= consumed
                 /\ (consumed' - consumed) % IO_LIMITER_CHUNK_SIZE = 0
                 /\ entry_len <= remained_quota => consumed' = consumed
                 /\ entry_len > remained_quota =>
                       /\ consumed' > consumed
                       /\ remained_quota + (consumed' - consumed) - IO_LIMITER_CHUNK_SIZE
                             < entry_len
                 /\ bpc' # "err_scan" => Len(file'.entries) = Len(file.entries) + 1]_vars

\* An SST build of two pairs, one of them longer than a chunk, that took three
\* chunks and has quota left over.
C28_Witness ==
    /\ bmode = "sst" /\ bpc = "ok"
    /\ stats.key_count = 2
    /\ \E i \in 1..Len(file.entries) :
          Len(file.entries[i][1]) + Len(file.entries[i][2]) > IO_LIMITER_CHUNK_SIZE
    /\ consumed = 3 * IO_LIMITER_CHUNK_SIZE
    /\ remained_quota > 0

\* C31: a build that returned Ok has key_count equal to the number of pairs of
\* the snapshot with start <= key < end and total_size equal to the sum of their
\* key and value lengths, and the file holds that many records with that many
\* payload bytes: the plain file is key_count records, each with two length
\* bytes, and the terminator; the SST file has key_count entries.
C31_StatsMatchFile ==
    (bpc = "ok" /\ apc = "idle") =>
        /\ stats.key_count = Cardinality(KeysInRange)
        /\ stats.total_size = SumLen(ScanRange(srcCf, brange))
        /\ (bmode = "plain" /\ stats.key_count >= 1) =>
              /\ Len(file.bytes) = stats.total_size + 2 * stats.key_count + 1
              /\ file.bytes = EncodePairs(ScanRange(srcCf, brange))
                                 \o EncodeCompactBytes(<<>>)
        /\ bmode = "sst" =>
              /\ Len(file.entries) = stats.key_count
              /\ SumLen(file.entries) = stats.total_size

\* A plain build returned Ok for two pairs of a range that leaves a pair of the
\* column family out; the keys and values differ in length.
C31_Witness ==
    /\ bpc = "ok" /\ apc = "idle" /\ bmode = "plain"
    /\ stats.key_count = 2
    /\ Cardinality(DOMAIN srcCf) = 3
    /\ stats.total_size = 5
    /\ \E k \in KeysInRange : Len(k) # Len(srcCf[k])

\* The number of pairs the scan has delivered to the build.
Delivered == Len(ScanRange(srcCf, brange)) - Len(scanRest)

\* C32: a build in which the scan, an encode or a put fails returns an error at
\* that pair: the file is at the path, holding the pairs delivered before it (and,
\* when the value's encode failed, the key of the failing pair) and nothing
\* after: no later pair, no terminator; it is neither finished nor synced, and
\* the pairs that follow were not read. Nothing changes after the error.
C32_BuildErrorLeavesPartialFile ==
    /\ [](bpc = "err_scan" =>
             LET pairs == ScanRange(srcCf, brange)
                 done  == SubSeq(pairs, 1, Delivered)
             IN  /\ file.exists
                 /\ ~file.synced /\ ~file.finished
                 /\ scanRest = SubSeq(pairs, Delivered + 1, Len(pairs))
                 /\ bmode = "plain" =>
                       \/ file.bytes = EncodePairs(done)
                       \/ /\ scanRest # <<>>
                          /\ file.bytes = EncodePairs(done)
                                             \o EncodeCompactBytes(Head(scanRest)[1])
                 /\ bmode = "sst" => file.entries = done
                 /\ stats.key_count \in {Delivered, Delivered + 1})
    /\ [][bpc = "err_scan" => (bpc' = "err_scan" /\ file' = file /\ apc' = "idle")]_vars

\* A plain build failed at the value of its second pair: the file holds the
\* first record and the second key.
C32_Witness ==
    /\ bpc = "err_scan" /\ bmode = "plain"
    /\ Delivered = 1
    /\ Len(scanRest) = 2
    /\ stats.key_count = 2
    /\ file.bytes = EncodePairs(SubSeq(ScanRange(srcCf, brange), 1, 1))
                       \o EncodeCompactBytes(Head(scanRest)[1])

\* C34: at every point of apply_plain_cf_file, the points where it has returned
\* Abort or an error included, on whole files and on files that lost their end,
\* the pairs written to the target are the first records of the file, in file
\* order, each once, and they end where a flush ends: the target holds what it
\* held before with these pairs put, the pairs decoded and not written are the
\* records that follow and are buffered, every batch written reached batch_size
\* with its last pair and not before (or is the one written at the terminator), and a step only
\* adds to what is written.
C34_WrittenIsFlushedPrefix ==
    /\ []((bmode = "plain" /\ apc # "idle") =>
             LET written == Concat(wrLog)
                 recs == FileRecords(file.bytes)
             IN  /\ IsPrefix(written, recs)
                 /\ db1 = PutAll(db10, written)
                 /\ decoded = Len(written) + Len(batch)
                 /\ batch = SubSeq(recs, Len(written) + 1, decoded)
                 /\ \A i \in 1..Len(wrLog) :
                       /\ wrLog[i] # <<>>
                       /\ \A n \in 1..(Len(wrLog[i]) - 1) :
                             SumLen(SubSeq(wrLog[i], 1, n)) < batch_size
                       /\ \/ SumLen(wrLog[i]) >= batch_size
                          \/ i = Len(wrLog) /\ apc = "ok")
    /\ [][IsPrefix(Concat(wrLog), Concat(wrLog'))]_vars

\* The call returned an error on a file of three records that lost its
\* terminator, after it wrote the first two in one batch; the third is buffered.
C34_Witness ==
    /\ bmode = "plain" /\ bpc = "cut" /\ apc = "err"
    /\ Len(FileRecords(file.bytes)) = 3
    /\ Len(wrLog) = 1 /\ Len(wrLog[1]) = 2
    /\ Len(batch) = 1
    /\ db1 = PutAll(db10, SubSeq(FileRecords(file.bytes), 1, 2))

\* The pairs of a sequence of pairs, as a set.
PairsOf(pairs) == { pairs[i] : i \in 1..Len(pairs) }

\* C35: when apply_plain_cf_file has returned Abort, no pair that was decoded and
\* not flushed was written or passed to the callback, and the target holds under
\* its key what it held before the call, or nothing; the turn that aborts writes
\* nothing and calls nothing back. This holds as well when the detector turns
\* stale at the query before the terminator, every record being decoded.
C35_AbortDropsBuffered ==
    /\ []((bmode = "plain" /\ apc = "abort") =>
             /\ decoded = Len(Concat(wrLog)) + Len(batch)
             /\ PairsOf(batch) \cap PairsOf(Concat(wrLog)) = {}
             /\ PairsOf(batch) \cap PairsOf(Concat(cbLog)) = {}
             /\ \A j \in 1..Len(batch) :
                   LET key == batch[j][1]
                   IN  IF key \in DOMAIN db10
                       THEN key \in DOMAIN db1 /\ db1[key] = db10[key]
                       ELSE key \notin DOMAIN db1
             /\ decoded = Len(FileRecords(file.bytes)) =>
                   Concat(cbLog) \o batch = FileRecords(file.bytes))
    /\ [][apc' = "abort" => (db1' = db1 /\ cbLog' = cbLog /\ wrLog' = wrLog)]_vars

\* The detector turned stale at the query before the terminator of a whole file
\* of three records: the first two were flushed, the third is buffered and is not
\* in the target.
C35_Witness ==
    /\ bmode = "plain" /\ bpc = "ok" /\ apc = "abort"
    /\ decoded = 3 /\ Len(FileRecords(file.bytes)) = 3
    /\ DecodeCompactBytes(file.bytes, rdOff).ok
    /\ DecodeCompactBytes(file.bytes, rdOff).data = <<>>
    /\ Len(Concat(wrLog)) = 2
    /\ Len(batch) = 1
    /\ batch[1][1] \notin DOMAIN db1

\* A reader of records that starts at offset `off` of `bytes` comes to a length
\* byte of zero where it expects a key, before the bytes run out.
RECURSIVE ReadsTerminator(_, _)
ReadsTerminator(bytes, off) ==
    /\ off <= Len(bytes)
    /\ \/ bytes[off] = 0
       \/ LET voff == off + bytes[off] + 1
          IN  /\ voff <= Len(bytes)
              /\ voff + bytes[voff] <= Len(bytes)
              /\ ReadsTerminator(bytes, voff + bytes[voff] + 1)

\* C36: apply_plain_cf_file returns Ok only after it read a zero-length key, the
\* last thing it read; on a file in which the reader comes to no zero-length key
\* (a file cut after a record or inside one) it does not return Ok, the error it
\* returns when the bytes run out comes after every whole record was decoded, and
\* the pairs buffered at that point are not written: the target holds the
\* flushed batches and nothing else.
C36_OkOnlyAfterTerminator ==
    /\ []((bmode = "plain" /\ apc = "ok") =>
             /\ ReadsTerminator(file.bytes, 1)
             /\ rdOff >= 2 /\ file.bytes[rdOff - 1] = 0
             /\ batch = <<>>)
    /\ []((bmode = "plain" /\ file.exists /\ ~ReadsTerminator(file.bytes, 1)) =>
             /\ apc \in {"idle", "loop", "err", "abort", "err_write"}
             /\ apc = "err" =>
                   /\ decoded = Len(FileRecords(file.bytes))
                   /\ Concat(wrLog) \o batch = FileRecords(file.bytes)
                   /\ db1 = PutAll(db10, Concat(wrLog))
                   /\ \A j \in 1..Len(batch) :
                         batch[j][1] \in DOMAIN db1 =>
                            (batch[j][1] \in DOMAIN db10
                               /\ db1[batch[j][1]] = db10[batch[j][1]]))
    /\ []((bmode = "plain" /\ apc = "err" /\ file.exists) =>
             ~ReadsTerminator(file.bytes, 1))
    /\ [][(apc = "loop" /\ apc' = "ok") =>
             (rdOff <= Len(file.bytes) /\ file.bytes[rdOff] = 0 /\ rdOff' = rdOff + 1)]_vars

\* A file cut inside its third record, the value's length read and the value
\* missing: the call returned an error with the first record written and the
\* second buffered.
C36_Witness ==
    /\ bmode = "plain" /\ bpc = "cut" /\ apc = "err"
    /\ ~ReadsTerminator(file.bytes, 1)
    /\ Len(FileRecords(file.bytes)) = 2
    /\ Len(file.bytes) > Len(EncodePairs(FileRecords(file.bytes))) + 2
    /\ Len(Concat(wrLog)) = 1
    /\ Len(batch) = 1
    /\ batch[1][1] \notin DOMAIN db1

(***************************************************************************)
(* Range deletion: claims                                                  *)
(***************************************************************************)

\* The call was given the one range [a, b) and has returned Ok.
SingleRangeOk == dpc = "ok" /\ Len(dranges) = 1

\* The keys the call found in the store that lie in range r.
FoundInRange(r) == { k \in DOMAIN cf0 : InRange(k, r) }

\* Key k lies in none of the ranges of the call.
OutsideRanges(k) == \A i \in 1..Len(dranges) : ~InRange(k, dranges[i])

\* C4 as stated: with each of the four strategies, after deleteRanges(cf, strategy,
\* [(a,b)]) returns Ok, the column family holds no key k with a <= k < b.
C4_Original ==
    SingleRangeOk => \A k \in DOMAIN dbcf : ~InRange(k, dranges[1])

\* C4: after deleteRanges(cf, strategy, [(a,b)]) returns Ok, DeleteByRange,
\* DeleteByKey and DeleteByWriter leave no key k with a <= k < b; DeleteFiles
\* leaves such a key exactly when the key is in the memtable or in an on-disk
\* file that also holds a key outside [a, b).
C4_CompleteButForDeleteFiles ==
    SingleRangeOk =>
        \A k \in FoundInRange(dranges[1]) :
            k \in DOMAIN dbcf <=>
                /\ dstrategy = "DeleteFiles"
                /\ \/ loc[k] = 0
                   \/ \E k2 \in DOMAIN loc : loc[k2] = loc[k] /\ ~InRange(k2, dranges[1])

\* A DeleteFiles call returned Ok having dropped a file of the range and having
\* left a key of the range in place.
C4_Witness ==
    /\ SingleRangeOk
    /\ dstrategy = "DeleteFiles"
    /\ \E k \in FoundInRange(dranges[1]) : k \notin DOMAIN dbcf
    /\ \E k \in FoundInRange(dranges[1]) : k \in DOMAIN dbcf

\* C5: with every strategy and any list of ranges, a deleteRanges that returned Ok
\* has left every key outside the union of the ranges (for every range, k < start
\* or k >= end) in the store with the value it had.
C5_Precision ==
    dpc = "ok" =>
        \A k \in DOMAIN cf0 :
            OutsideRanges(k) => (k \in DOMAIN dbcf /\ dbcf[k] = cf0[k])

\* DeleteByWriter returned Ok for two ranges with a key between them: the keys
\* of the ranges went through the writer's file and are gone, the key between
\* them is there.
C5_Witness ==
    /\ dpc = "ok"
    /\ dstrategy = "DeleteByWriter"
    /\ Len(dranges) = 2
    /\ writer.open
    /\ \E k \in DOMAIN dbcf :
          /\ OutsideRanges(k)
          /\ \E i, j \in 1..2 : KeyLeq(dranges[i].end_key, k)
                                 /\ KeyLess(k, dranges[j].start_key)
    /\ \E k \in DOMAIN cf0 : k \notin DOMAIN dbcf

\* C6: with every strategy, a second deleteRanges with the same cf, strategy and
\* ranges after a first call that returned Ok does not fail and leaves the
\* store's key/value pairs as the first call left them.
C6_Idempotent ==
    ncalls >= 2 => (dpc # "err" /\ dbcf = cf0)

\* The second call returned Ok after a first call that had deleted keys.
C6_Witness ==
    /\ ncalls = 2
    /\ dpc = "ok"
    /\ dranges # <<>>
    /\ DOMAIN cfStart # DOMAIN cf0
    /\ dbcf = cf0

\* How many times the call performed engine operation op.
CountOf(log, op) == Cardinality({ i \in 1..Len(log) : log[i] = op })

\* C14: deleteRanges with an empty range list returns Ok with every strategy and
\* any cf name, known to the store or not, and performs no engine operation: no
\* write, no sync, no cf handle resolved, no file created by a writer; the store
\* is as it was.
C14_EmptyListNoOp ==
    (ncalls >= 1 /\ dranges = <<>>) =>
        /\ dpc = "ok"
        /\ dlog = <<>>
        /\ dbcf = cf0
        /\ ~writer.open /\ wb = <<>> /\ data = <<>>

\* DeleteByWriter was called with no range for a column family the store does not
\* have, on a store holding keys, and returned Ok.
C14_Witness ==
    /\ dpc = "ok"
    /\ dranges = <<>>
    /\ dstrategy = "DeleteByWriter"
    /\ ~KnownCf(dcf)
    /\ DOMAIN dbcf # {}

\* C20: DeleteByRange puts one tombstone per input range, in order, into one
\* batch and commits it with one write: at every moment of the call the store
\* holds either everything the call found (no range deleted) or, once the call
\* has returned Ok, nothing of any range (all deleted); a call that fails at
\* building or writing the batch has deleted nothing.
C20_OneAtomicWrite ==
    (ncalls >= 1 /\ dstrategy = "DeleteByRange" /\ dranges # <<>>) =>
        /\ \/ dbcf = cf0
           \/ /\ dpc = "ok"
              /\ dbcf = RemoveKeys(cf0, CoveredByRanges(cf0, dranges))
        /\ dpc = "err" => dbcf = cf0
        /\ dpc = "ok" => dbcf = RemoveKeys(cf0, CoveredByRanges(cf0, dranges))
        /\ dpc \in {"byrange_write", "ok"} => wb = dranges
        /\ CountOf(dlog, "write") = (IF dpc = "ok" \/ (dpc = "err" /\ KnownCf(dcf)) THEN 1 ELSE 0)
        /\ CountOf(dlog, "sync") = 0

\* DeleteByRange returned Ok for two ranges, each of which held a key the other
\* did not: both keys went with the one write.
C20_Witness ==
    /\ dpc = "ok"
    /\ dstrategy = "DeleteByRange"
    /\ Len(dranges) = 2
    /\ \E k1, k2 \in DOMAIN cf0 :
          /\ InRange(k1, dranges[1]) /\ ~InRange(k1, dranges[2])
          /\ InRange(k2, dranges[2]) /\ ~InRange(k2, dranges[1])
          /\ k1 \notin DOMAIN dbcf /\ k2 \notin DOMAIN dbcf
    /\ CountOf(dlog, "write") = 1

\* The pairs of column family c that column family d lacks.
MissingKeys(c, d) == (DOMAIN c) \ (DOMAIN d)

\* d holds nothing but pairs of c.
SubCf(d, c) == \A k \in DOMAIN d : k \in DOMAIN c /\ d[k] = c[k]

\* C21: DeleteByKey commits one write batch at a time. Whatever engine operation
\* fails and wherever the process stops, the column family holds pairs it held
\* before the first call, every missing key lies in a range of the list, each
\* step removes the keys of at most one batch, all of the range in progress; and
\* when the same call, run again, returns Ok no key of the ranges remains.
C21_PartialThenRerun ==
    /\ [](dstrategy = "DeleteByKey" =>
             /\ SubCf(dbcf, cfStart)
             /\ \A k \in MissingKeys(cfStart, dbcf) : ~OutsideRanges(k)
             /\ dpc = "ok" => \A k \in DOMAIN dbcf : OutsideRanges(k))
    /\ [][(dstrategy = "DeleteByKey" /\ dbcf' # dbcf) =>
             /\ dpc = "bykey_iter"
             /\ Cardinality(MissingKeys(dbcf, dbcf')) <= WRITE_BATCH_MAX_KEYS
             /\ \A k \in MissingKeys(dbcf, dbcf') : InRange(k, CurRange)
             /\ SubCf(dbcf', dbcf)]_vars

\* The first DeleteByKey call ended, by an error or an interruption, with one
\* batch of a range committed and keys of that range still there; the same call
\* run again returned Ok and left no key of the ranges.
C21_Witness ==
    /\ dstrategy = "DeleteByKey" /\ ncalls = 2 /\ dpc = "ok"
    /\ Cardinality(MissingKeys(cfStart, cf0)) = WRITE_BATCH_MAX_KEYS
    /\ \E k \in DOMAIN cf0 : ~OutsideRanges(k)
    /\ \A k \in DOMAIN dbcf : OutsideRanges(k)
    /\ dbcf # EmptyCf

\* The position of the first "error" in the log, 0 when there is none.
FirstError(log) ==
    IF \E i \in 1..Len(log) : log[i] = "error"
    THEN CHOOSE i \in 1..Len(log) : log[i] = "error" /\ \A j \in 1..(i - 1) : log[j] # "error"
    ELSE 0

\* Key k lies in a range processed after range i and in none up to range i.
OnlyInLaterRanges(k, i) ==
    /\ \E j \in (i + 1)..Len(sranges) : InRange(k, sranges[j])
    /\ \A j \in 1..i : j <= Len(sranges) => ~InRange(k, sranges[j])

\* C22: when an engine operation of a deleteRanges call fails (iterator, batch
\* write, sync, file deletion or ingest) the call returns the error at once: the
\* failed operation is the last one of the call, the call is in its error state
\* at the range it was processing, every key that lies only in later ranges of
\* the processing order is still there, and what DeleteByKey committed for the
\* ranges before it stays deleted.
C22_ErrorAbortsCall ==
    FirstError(dlog) # 0 =>
        /\ dpc = "err"
        /\ FirstError(dlog) = Len(dlog)
        /\ SubCf(dbcf, cf0)
        /\ \A k \in DOMAIN cf0 : OnlyInLaterRanges(k, ri) => k \in DOMAIN dbcf
        /\ dstrategy = "DeleteByKey" =>
              \A j \in 1..(ri - 1) : \A k \in DOMAIN dbcf : ~InRange(k, sranges[j])

\* DeleteByKey failed in its second range after deleting the keys of the first:
\* the keys of the first range are gone, those of the second are all there.
C22_Witness ==
    /\ dstrategy = "DeleteByKey" /\ dpc = "err" /\ FirstError(dlog) # 0
    /\ ncalls = 1
    /\ Len(sranges) = 2 /\ ri = 2
    /\ \E k \in DOMAIN cf0 : InRange(k, sranges[1]) /\ k \notin DOMAIN dbcf
    /\ \E k \in DOMAIN cf0 : OnlyInLaterRanges(k, 1) /\ k \in DOMAIN dbcf
    /\ \A k \in DOMAIN cf0 : OnlyInLaterRanges(k, 1) => k \in DOMAIN dbcf

\* The store the call found, without the keys of the union of the ranges.
WithoutUnion == RemoveKeys(cf0, CoveredByRanges(cf0, dranges))

\* C24: for a list of ranges in any order, with overlaps, containments and
\* duplicates, DeleteByWriter does not fail where DeleteByKey does not, and when
\* either returns Ok the column family is the one the call found without the
\* keys of the union of the ranges: the two strategies leave the same state.
C24_WriterAsByKey ==
    (dstrategy \in {"DeleteByKey", "DeleteByWriter"} /\ KnownCf(dcf) /\ dranges # <<>>) =>
        /\ dpc # "err"
        /\ dpc = "ok" => dbcf = WithoutUnion

\* DeleteByWriter returned Ok for three ranges, two that overlap in part and one
\* that contains both, after spilling its buffer into a file.
C24_Witness ==
    /\ dstrategy = "DeleteByWriter" /\ dpc = "ok"
    /\ Len(dranges) = 3
    /\ writer.open
    /\ \E i, j, k \in 1..3 :
          /\ i # j /\ j # k /\ i # k
          /\ KeyLess(dranges[i].start_key, dranges[j].start_key)
          /\ KeyLess(dranges[j].start_key, dranges[i].end_key)
          /\ KeyLess(dranges[i].end_key, dranges[j].end_key)
          /\ KeyLeq(dranges[k].start_key, dranges[i].start_key)
          /\ KeyLeq(dranges[j].end_key, dranges[k].end_key)
    /\ dbcf = WithoutUnion
    /\ dbcf # cf0

\* The keys DeleteByWriter has taken from its non-overlapping ranges so far, in
\* the order it found them.
FoundByWriter == data \o writer.keys

Ascending(keys) == \A i \in 1..(Len(keys) - 1) : KeyLess(keys[i], keys[i + 1])

\* C25: DeleteByWriter has a bulk-delete file exactly when the keys found in its
\* non-overlapping ranges number more than MAX_DELETE_COUNT_BY_KEY. Up to that
\* number the keys stay in the buffer, no file is created or ingested and the
\* end of the call commits them in plain write batches. Beyond it one file is
\* created, it holds every key found exactly once, the buffered keys first and
\* then each further key as it is found, the buffer is empty, and the end of the
\* call writes no batch and ingests the file once.
C25_FileOnlyPastThreshold ==
    /\ [](dstrategy = "DeleteByWriter" =>
             /\ writer.open <=> Len(FoundByWriter) > MAX_DELETE_COUNT_BY_KEY
             /\ writer.open =>
                   /\ data = <<>>
                   /\ Ascending(writer.keys)
                   /\ CountOf(dlog, "sst_create") = 1
             /\ ~writer.open =>
                   /\ CountOf(dlog, "sst_create") = 0
                   /\ CountOf(dlog, "ingest") = 0
             /\ (dpc = "ok" /\ dranges # <<>>) =>
                   CountOf(dlog, "ingest") = (IF writer.open THEN 1 ELSE 0))
    /\ [][(dstrategy = "DeleteByWriter" /\ ncalls' = ncalls
             /\ (data' # data \/ writer' # writer)) =>
             data' \o writer'.keys = Append(FoundByWriter, Head(it))]_vars
    /\ [][(dpc = "ingest_finish" /\ dpc' = "ok") =>
             IF writer.open
             THEN /\ dlog' = dlog \o <<"sst_finish", "cf_handle", "ingest">>
                  /\ dbcf' = WriteDeletes(dbcf, writer.keys)
             ELSE /\ CountOf(dlog', "write") = CountOf(dlog, "write") + BatchWrites(data)
                  /\ CountOf(dlog', "ingest") = 0
                  /\ dbcf' = WriteDeletes(dbcf, data)]_vars

\* DeleteByWriter returned Ok for two adjoining ranges of two keys each: the
\* third key found opened the file, which was ingested with all four keys.
C25_Witness ==
    /\ dstrategy = "DeleteByWriter" /\ dpc = "ok"
    /\ Len(sranges) = 2
    /\ sranges[1].end_key = sranges[2].start_key
    /\ writer.open /\ Len(writer.keys) = 4
    /\ CountOf(dlog, "ingest") = 1 /\ CountOf(dlog, "write") = 0
    /\ dbcf = EmptyCf

\* Operation op is at position i of the log.
OpAt(log, i, op) == i \in 1..Len(log) /\ log[i] = op

\* C26 as stated: when DeleteByWriter has produced a bulk-delete file, the call
\* ends with finish of the writer, then an fsync of the file, then the ingest,
\* which is the last engine operation and comes after the scan of every range.
C26_Original ==
    (dstrategy = "DeleteByWriter" /\ dpc = "ok" /\ writer.open) =>
        \E i, j \in 1..Len(dlog) :
            /\ i < j /\ j < Len(dlog)
            /\ OpAt(dlog, i, "sst_finish")
            /\ OpAt(dlog, j, "sync")
            /\ OpAt(dlog, Len(dlog), "ingest")
            /\ \A n \in i..Len(dlog) : ~OpAt(dlog, n, "iterator")

\* The number of deletes put into the batch that the write at position i of the
\* log submits: the delete_cf operations right before it.
RECURSIVE DeletesBefore(_, _)
DeletesBefore(log, i) ==
    IF i > 1 /\ log[i - 1] = "cf_handle" THEN 1 + DeletesBefore(log, i - 1) ELSE 0

\* C27: DeleteByKey never holds WRITE_BATCH_MAX_KEYS deletes in its batch after a
\* step, submits batches of at least one and at most WRITE_BATCH_MAX_KEYS deletes,
\* removes with each write just the keys of that batch, which lie in the range
\* in progress, and issues one sync per range, after the range's last write and
\* also when the range held no key.
C27_BatchCapAndSync ==
    /\ []((dstrategy = "DeleteByKey" /\ KnownCf(dcf)) =>
             /\ Len(wb) < WRITE_BATCH_MAX_KEYS
             /\ \A i \in 1..Len(dlog) :
                   /\ dlog[i] = "write" =>
                         /\ DeletesBefore(dlog, i) >= 1
                         /\ DeletesBefore(dlog, i) <= WRITE_BATCH_MAX_KEYS
                   /\ (dlog[i] = "sync" /\ i < Len(dlog)) => dlog[i + 1] = "iterator"
             /\ dpc \in {"bykey_range", "bykey_iter"} => CountOf(dlog, "sync") = ri - 1
             /\ dpc = "ok" =>
                   /\ CountOf(dlog, "sync") = Len(dranges)
                   /\ CountOf(dlog, "iterator") = Len(dranges))
    /\ [][(dstrategy = "DeleteByKey" /\ KnownCf(dcf) /\ ncalls' = ncalls) =>
             /\ dbcf' # dbcf <=> CountOf(dlog', "write") > CountOf(dlog, "write")
             /\ CountOf(dlog', "write") <= CountOf(dlog, "write") + 1
             /\ dbcf' # dbcf =>
                   /\ MissingKeys(dbcf, dbcf') =
                         SeqToSet(wb) \cup (IF it # <<>> THEN {Head(it)} ELSE {})
                   /\ Cardinality(MissingKeys(dbcf, dbcf')) <= WRITE_BATCH_MAX_KEYS
                   /\ \A k \in MissingKeys(dbcf, dbcf') : InRange(k, CurRange)]_vars

\* DeleteByKey returned Ok for a range of three keys and a range without a key:
\* a full batch, a batch of one, and a sync for each range.
C27_Witness ==
    /\ dstrategy = "DeleteByKey" /\ dpc = "ok"
    /\ Len(dranges) = 2
    /\ Cardinality(FoundInRange(dranges[1])) = 3
    /\ ~Degenerate(dranges[2]) /\ FoundInRange(dranges[2]) = {}
    /\ CountOf(dlog, "write") = 2
    /\ CountOf(dlog, "sync") = 2

\* What a call removes when its ranges with start_key >= end_key count as empty:
\* the keys of the other ranges, or for DeleteFiles the files inside them.
RemovedByProperRanges ==
    IF dstrategy = "DeleteFiles"
    THEN UNION { DroppedByDeleteFiles(loc, dranges[i]) :
                   i \in { j \in 1..Len(dranges) : ~Degenerate(dranges[j]) } }
    ELSE CoveredByRanges(cf0, dranges)

\* C29 as stated: with every strategy, a call whose list holds a range with
\* start_key >= end_key does not fail because of it and removes what the other
\* ranges of the list remove, and nothing for that range.
C29_Original ==
    ( /\ ncalls = 1 /\ dpc \in {"ok", "err"}
      /\ KnownCf(dcf)
      /\ \E i \in 1..Len(dranges) : Degenerate(dranges[i]) )
    => (dpc = "ok" /\ dbcf = RemoveKeys(cf0, RemovedByProperRanges))

\* The ranges of the call, up to position n, that have start_key < end_key.
ProperRangesUpTo(n) ==
    { i \in 1..n : i <= Len(dranges) /\ KeyLess(dranges[i].start_key, dranges[i].end_key) }

\* Key k is stored in an on-disk file all of whose keys lie in range r.
InFileInside(k, r) ==
    /\ loc[k] >= 1
    /\ \A k2 \in DOMAIN loc : loc[k2] = loc[k] => InRange(k2, r)

\* C30: DeleteFiles asks the engine to drop files once for each range with
\* start_key < end_key and never for another one; after it returned Ok the keys
\* gone are those stored in an on-disk file whose keys all lie inside one of
\* these ranges, so a key of a range that is in the memtable, or in a file that
\* also holds a key outside the range, is still there with its value.
C30_DeleteFilesWholeFilesOnly ==
    (dstrategy = "DeleteFiles" /\ KnownCf(dcf)) =>
        /\ dpc = "files" =>
              CountOf(dlog, "delete_files") = Cardinality(ProperRangesUpTo(ri - 1))
        /\ dpc = "ok" =>
              CountOf(dlog, "delete_files") = Cardinality(ProperRangesUpTo(Len(dranges)))
        /\ dpc # "err"
        /\ SubCf(dbcf, cf0)
        /\ dpc = "ok" =>
              \A k \in DOMAIN cf0 :
                  k \notin DOMAIN dbcf <=>
                      \E i \in ProperRangesUpTo(Len(dranges)) : InFileInside(k, dranges[i])

\* DeleteFiles returned Ok for a range with equal bounds and a range holding a
\* file of two keys and a key of the memtable: one request to the engine, the
\* file's keys gone, the memtable's key there.
C30_Witness ==
    /\ dstrategy = "DeleteFiles" /\ dpc = "ok"
    /\ Len(dranges) = 2
    /\ dranges[1].start_key = dranges[1].end_key
    /\ CountOf(dlog, "delete_files") = 1
    /\ Cardinality(MissingKeys(cf0, dbcf)) = 2
    /\ \E k \in DOMAIN dbcf : InRange(k, dranges[2]) /\ loc[k] = 0

\* The positions, in the sorted list rs, of the ranges by_ingest takes itself:
\* those that do not start below the end key recorded at their turn.
WriterRangeIdx(rs) ==
    LET RECURSIVE Walk(_, _)
        Walk(i, last) ==
            IF i > Len(rs) THEN {}
            ELSE IF last.some /\ KeyLess(rs[i].start_key, last.key)
                 THEN Walk(i + 1, last)
                 ELSE {i} \cup Walk(i + 1, [some |-> TRUE, key |-> rs[i].end_key])
    IN  Walk(1, NoKey)

\* C38: for every list of ranges the keys DeleteByWriter buffers for the
\* bulk-delete writer and hands to it are strictly increasing over the whole
\* call, and the writer refuses none: the ranges it takes itself are visited in
\* ascending order of their start keys, each starts at or after the end of every
\* one taken before it, every key found lies in one of them, and a range that
\* starts below the recorded end key goes to by_key, which leaves the buffer, the
\* writer and the recorded end key as they are.
C38_WriterKeysAscending ==
    /\ []((dstrategy = "DeleteByWriter" /\ dranges # <<>>) =>
             /\ Ascending(FoundByWriter)
             /\ KnownCf(dcf) => dpc # "err"
             /\ \A i \in WriterRangeIdx(sranges) : \A j \in WriterRangeIdx(sranges) :
                   i < j => /\ KeyLeq(sranges[i].start_key, sranges[j].start_key)
                            /\ KeyLeq(sranges[i].end_key, sranges[j].start_key)
             /\ \A n \in 1..Len(FoundByWriter) :
                   \E i \in WriterRangeIdx(sranges) :
                      i <= ri /\ InRange(FoundByWriter[n], sranges[i]))
    /\ [][(dpc = "ingest_range" /\ last_end_key.some
             /\ KeyLess(CurRange.start_key, last_end_key.key)) =>
             /\ dpc' \in {"bykey_iter", "err"}
             /\ data' = data /\ writer' = writer /\ last_end_key' = last_end_key]_vars
    /\ [][dpc = "bykey_iter" => (data' = data /\ writer' = writer)]_vars

\* Three ranges given out of order: the writer took the first and the third of
\* the sorted list, the second, which overlaps the first, went to by_key; the
\* three keys found in the two ranges are in the file, in ascending order.
C38_Witness ==
    /\ dstrategy = "DeleteByWriter" /\ dpc = "ok"
    /\ Len(dranges) = 3 /\ dranges # sranges
    /\ WriterRangeIdx(sranges) = {1, 3}
    /\ writer.open /\ Len(writer.keys) = 3
    /\ InRange(writer.keys[2], sranges[1])
    /\ InRange(writer.keys[3], sranges[3])
    /\ KeyLess(sranges[2].start_key, sranges[2].end_key)

====
